---- MODULE Spec2Model ----
(***************************************************************************)
(* A model of the proxy pool of reverse_proxy.py: ProxyEntry and its      *)
(* health accounting, ProxyPool (add_proxy, remove_proxy,                 *)
(* get_current_proxy, rotate, validate_proxy, validate_all_proxies,       *)
(* load_from_file, save_to_file, start_rotation, stop), TrafficStats,      *)
(* ReverseProxyHandler.proxy_request, ReverseProxy.start, stop and         *)
(* get_status, and the start and rotate commands of interactive_mode.      *)
(*                                                                         *)
(* A ProxyEntry is a Python object.  While it is in ProxyPool.proxies the *)
(* model names it by its (host, port), which add_proxy keeps unique.      *)
(* remove_proxy pops the object from the list; a thread that still holds  *)
(* it (the local `proxy` of proxy_request, an element of                  *)
(* proxies_snapshot) then writes to an object the pool no longer sees.    *)
(* Such a reference is the value Detached: it never aliases a later       *)
(* entry added under the same (host, port).                               *)
(*                                                                         *)
(* Specifications:                                                         *)
(*   Spec        health accounting: the pool operations, the validation   *)
(*               sweep and get_status over two addresses;                 *)
(*   SpecLock    add_proxy and remove_proxy called by two threads, step   *)
(*               by step, under ProxyPool._lock, over three addresses;    *)
(*   SpecRotate  the rotate command repeated on a pool that stays fixed;  *)
(*   SpecAdmin   the pool operations, the validation sweep and request    *)
(*               handling, over one address;                              *)
(*   SpecRelay   request handling and its statistics, over one address;   *)
(*   SpecFile    save_to_file and load_from_file on files of a few lines; *)
(*   SpecHeaders proxy_request on requests with a few header lines;       *)
(*   SpecLife    ReverseProxy.start and stop and the rotation loop;       *)
(*   FairLoops   the rotation, validation and serve loops, each thread    *)
(*               scheduled fairly;                                         *)
(*   SpecServe   the serve loop and the handler threads it starts;        *)
(*   SpecSelect  get_least_used_proxy and get_fastest_proxy;              *)
(*   SpecWindow  the response-time window of a ProxyEntry;                *)
(*   SpecRace    counters updated by two threads without a lock;          *)
(*   SpecClear   the clear command beside request handling;               *)
(*   SpecStatus  get_status, statement by statement, beside the pool      *)
(*               operations and the validation sweep;                      *)
(*   FairCalls   the callers of ProxyPool._lock, scheduled fairly.        *)
(***************************************************************************)
EXTENDS Integers, Sequences, FiniteSets, TLC

(* ------------------------------ bounds -------------------------------- *)

\* Outcome recording on one target stops at these counts.
MaxFailures == 6
MaxSuccesses == 1
\* time.time() reads 0..MaxTime.
MaxTime == 1
\* SpecRotate starts from pools of at most this many entries.
MaxPool == 3
\* proxy_request is entered at most this many times.
MaxRequests == 6
\* A request carries at most this many header lines.
MaxHeaders == 2
\* ReverseProxy.start binds at most this many servers.
MaxServers == 2

\* The (host, port) pairs and the proxy_type strings the callers pass.
Addrs == {<<"h1", 1>>, <<"h1", 2>>}
AdminAddrs == {<<"h1", 1>>}
KindInputs == {"http", "HTTP", "ftp"}
Threads == {"t1", "t2"}

(* ------------------------- program constants -------------------------- *)

\* validate_proxy: `proxy.failure_count > 5`
FailureThreshold == 5
\* validate_proxy: `proxy.get_success_rate() < 0.3`, as the fraction 3/10
RateNum == 3
RateDen == 10

\* References are (host, port) pairs; these two name no entry of the pool.
None == <<"None", 0>>
Detached == <<"Detached", 0>>
\* The value of `lock` when no thread holds ProxyPool._lock.
NoThread == "none"

(* ------------------------------ state --------------------------------- *)

VARIABLES
    proxies,              \* ProxyPool.proxies: the list of ProxyEntry
    current_proxy_index,  \* ProxyPool.current_proxy_index
    last_rotation,        \* ProxyPool.last_rotation
    now,                  \* the reading of time.time()
    proxies_snapshot,     \* validate_all_proxies: the entries still to probe
    vpc,                  \* validate_all_proxies / validate_proxy: position
    hproxy,               \* proxy_request: the local `proxy`
    hpc,                  \* proxy_request: position, or the branch it took
    running,              \* ProxyPool._running
    file,                 \* the proxy file: whether it exists, and its lines
    lock,                 \* the thread holding ProxyPool._lock, or NoThread
    tpc,                  \* per thread: its position in add_proxy / remove_proxy
    targ,                 \* per thread: the arguments and locals of its call
    ret,                  \* <<v>>: the last call of a thread returned v
    cpc,                  \* the rotate command: position
    current,              \* the rotate command: the local `current`
    visited,              \* history: the values `current` took, in order
    vret,                 \* <<v>>: the last validate_proxy call returned v
    current_proxy,        \* get_status: the local `current_proxy`
    count,                \* load_from_file: the local `count`, as returned
    stats,                \* ReverseProxy.stats: the TrafficStats counters
    answer,               \* proxy_request: what the backend answered
    response,             \* proxy_request: what the client has been sent
    inbound,              \* proxy_request: self.headers.items()
    outbound,             \* proxy_request: the headers of the outbound Request
    proxy_running,        \* ReverseProxy._running
    listen_port,          \* ReverseProxy.listen_port
    servers,              \* the servers ReverseProxy.start has bound
    loops,                \* the threads ReverseProxy.start has started, by kind
    lpc,                  \* per kind: the position of one such thread in its loop
    healthy,              \* selection: the healthy targets, in iteration order
    connections,          \* selection: the in-flight count of each target
    chosen,               \* selection: <<t>> for the target returned, <<>> for None
    sweep,                \* history: the pool when the last sweep started
    probed,               \* history: the entries that sweep has probed, in order
    response_times,       \* ProxyEntry.response_times of the first entry
    samples,              \* history: the response times recorded on it, in order
    wpc,                  \* per worker thread: the statement it is at
    wproxy,               \* per worker thread: the local `proxy`
    wok,                  \* per worker thread: the outcome of its network call
    wval,                 \* per worker thread: the value its `+=` has read
    started,              \* history: the calls the worker threads have begun
    invocations,          \* history: the record_request calls that returned
    fresh,                \* the clear command: <<s>> while ReverseProxy.stats is a
                          \* new TrafficStats s the handlers do not use yet
    spc,                  \* get_status, statement by statement: position
    status                \* get_status: the entries of the dict read so far

poolVars == <<proxies, current_proxy_index, last_rotation>>
validatorVars == <<proxies_snapshot, vpc, vret>>
handlerVars == <<hproxy, hpc, answer, response, outbound, stats>>
lifeVars == <<proxy_running, servers, loops, lpc>>
envVars == <<now, running, file, inbound, listen_port, lifeVars>>
threadVars == <<lock, tpc, targ, ret>>
cmdVars == <<cpc, current, visited, current_proxy, count, fresh, spc, status>>
sideVars == <<healthy, connections, chosen, sweep, probed, response_times,
              samples, wpc, wproxy, wok, wval, started, invocations>>

vars == <<proxies, current_proxy_index, last_rotation, now, proxies_snapshot,
          vpc, hproxy, hpc, running, file, lock, tpc, targ, ret, cpc,
          current, visited, vret, current_proxy, count, stats, answer, response,
          inbound, outbound, proxy_running, listen_port, servers, loops, lpc,
          healthy, connections, chosen, sweep, probed,
          response_times, samples, wpc, wproxy, wok, wval, started,
          invocations, fresh, spc, status>>

(* ----------------------------- ProxyEntry ----------------------------- *)

\* str.lower() on the proxy_type strings and header names the model uses.
Lower(s) ==
    CASE s = "HTTP" -> "http"
      [] s = "HTTPS" -> "https"
      [] s = "SOCKS4" -> "socks4"
      [] s = "SOCKS5" -> "socks5"
      [] s = "Accept" -> "accept"
      [] s = "Connection" -> "connection"
      [] s = "Host" -> "host"
      [] s \in {"X-Forwarded-For", "X-forwarded-for"} -> "x-forwarded-for"
      [] s \in {"X-Forwarded-Proto", "X-forwarded-proto"} -> "x-forwarded-proto"
      [] s \in {"X-Real-IP", "X-real-ip"} -> "x-real-ip"
      [] OTHER -> s

\* str.capitalize() on the header names the model uses: the first letter in
\* upper case, the others in lower case.
Capitalize(s) ==
    CASE Lower(s) = "accept" -> "Accept"
      [] Lower(s) = "connection" -> "Connection"
      [] Lower(s) = "host" -> "Host"
      [] Lower(s) = "x-forwarded-for" -> "X-forwarded-for"
      [] Lower(s) = "x-forwarded-proto" -> "X-forwarded-proto"
      [] Lower(s) = "x-real-ip" -> "X-real-ip"
      [] OTHER -> s

\* The dataclass constructor as add_proxy calls it; the other fields take
\* their defaults.
ProxyEntry(h, p, t) ==
    [host |-> h, port |-> p, proxy_type |-> t, is_active |-> TRUE,
     success_count |-> 0, failure_count |-> 0]

Addr(e) == <<e.host, e.port>>

record_success(e) == [e EXCEPT !.success_count = @ + 1]

record_failure(e) == [e EXCEPT !.failure_count = @ + 1]

\* record_success: `if len(self.response_times) > 100`
WindowCap == 100
\* The longest run of record_success calls explored.
MaxSamples == 102

\* A mutant of Last: `w[:n]`, the first n elements.
First(w, n) == SubSeq(w, 1, n)

\* `w[-n:]`, the last n elements of a list longer than n.
Last(w, n) == SubSeq(w, Len(w) - n + 1, Len(w))


\* A mutant of get_success_rate: the `total == 0` test is missing.
get_success_rate_unguarded(e) ==
    <<e.success_count, e.success_count + e.failure_count>>

\* get_success_rate as the fraction <<numerator, denominator>>: 0.0 is
\* <<0, 1>>, success_count / total is <<success_count, total>>.
get_success_rate(e) ==
    LET total == e.success_count + e.failure_count
    IN  IF total = 0 THEN <<0, 1>> ELSE <<e.success_count, total>>

(* ----------------------------- ProxyPool ------------------------------ *)

\* A mutant of active_proxies: the `if p.is_active` filter is missing.
active_proxies_unfiltered == proxies

\* [p for p in self.proxies if p.is_active]
active_proxies == SelectSeq(proxies, LAMBDA e : e.is_active)

\* `proxy_type.lower() not in valid_types`, negated.
TypeOk(t) == Lower(t) \in {"http", "https", "socks4", "socks5"}

\* A mutant of Matches: the ports are not compared.
MatchesHostOnly(h, p) == {i \in 1..Len(proxies) : proxies[i].host = h}

\* The positions of the entries with this (host, port):
\* `proxy.host == host and proxy.port == port`.
Matches(h, p) == {i \in 1..Len(proxies) : proxies[i].host = h /\ proxies[i].port = p}

Min(S) == CHOOSE x \in S : \A y \in S : x <= y

\* list.pop(i), 1-based.
Pop(s, i) == [k \in 1..(Len(s) - 1) |-> IF k < i THEN s[k] ELSE s[k + 1]]

\* The position in proxies of the entry a reference names, 0 if it names none.
IndexOf(ref) ==
    LET S == {i \in 1..Len(proxies) : Addr(proxies[i]) = ref}
    IN  IF S = {} THEN 0 ELSE Min(S)

\* A reference after the entry e left the list.
Detach(ref, e) == IF ref = Addr(e) THEN Detached ELSE ref

\* A mutant of RecordSuccessOn: a recorded success makes the entry active.
RecordSuccessActivates(ref) ==
    IF IndexOf(ref) = 0 THEN proxies
    ELSE [proxies EXCEPT ![IndexOf(ref)] = [record_success(@) EXCEPT !.is_active = TRUE]]

\* The writes `proxy.record_success(...)` and `proxy.record_failure()`
\* through a reference: the list after them.  A reference that names no
\* entry writes to an object outside the pool.
RecordSuccessOn(ref) ==
    IF IndexOf(ref) = 0 THEN proxies
    ELSE [proxies EXCEPT ![IndexOf(ref)] = record_success(@)]

RecordFailureOn(ref) ==
    IF IndexOf(ref) = 0 THEN proxies
    ELSE [proxies EXCEPT ![IndexOf(ref)] = record_failure(@)]

\* ProxyPool._lock: `with self._lock` entered and left.  An operation the
\* model takes in one step enters and leaves within the step.
LockFree == lock = NoThread

\* A mutant of Acquire: the thread enters without waiting for the lock.
AcquireNoWait(t) == lock' = t

Acquire(t) == lock = NoThread /\ lock' = t
Release == lock' = NoThread

\* `self.proxies.append(proxy)` with the entry add_proxy builds.
Appended(h, p, t) == Append(proxies, ProxyEntry(h, p, Lower(t)))

\* A mutant of RemoveAt: the first entry is popped, whatever i.
RemoveFirst(i) ==
    /\ proxies' = Tail(proxies)
    /\ proxies_snapshot' =
         [k \in 1..Len(proxies_snapshot) |-> Detach(proxies_snapshot[k], proxies[1])]
    /\ hproxy' = Detach(hproxy, proxies[1])

\* A mutant of Outlived: the sweep iterates self.proxies itself, and the
\* entry popped is gone from what is left to probe.
OutlivedNot(i) ==
    SelectSeq(proxies_snapshot, LAMBDA ref : ref # Addr(proxies[i]))

\* The local list `proxies_snapshot` of a sweep under way when entry i is
\* popped from self.proxies: a list of its own, as long as before, its
\* reference to the entry naming an object outside the pool.
Outlived(i) ==
    [k \in 1..Len(proxies_snapshot) |-> Detach(proxies_snapshot[k], proxies[i])]

\* `self.proxies.pop(i)`: the entry leaves the list, and the references to
\* it held elsewhere name an object outside the pool.
RemoveAt(i) ==
    /\ proxies' = Pop(proxies, i)
    /\ proxies_snapshot' = Outlived(i)
    /\ hproxy' = Detach(hproxy, proxies[i])

(* ----------------- add_proxy and remove_proxy, in one step ------------- *)

\* add_proxy(h, p, t) from call to return: the type test, then the duplicate
\* scan and the append under the lock.
add_proxy(h, p, t) ==
    /\ LockFree
    /\ IF TypeOk(t) /\ Matches(h, p) = {}
       THEN /\ proxies' = Appended(h, p, t)
            /\ ret' = <<TRUE>>
       ELSE /\ proxies' = proxies
            /\ ret' = <<FALSE>>
    /\ UNCHANGED <<current_proxy_index, last_rotation, validatorVars,
                   handlerVars, envVars, lock, tpc, targ, cmdVars,
                   sideVars>>

\* remove_proxy(h, p) from call to return, all of it under the lock.
remove_proxy(h, p) ==
    /\ LockFree
    /\ IF Matches(h, p) # {}
       THEN /\ RemoveAt(Min(Matches(h, p)))
            /\ ret' = <<TRUE>>
       ELSE /\ UNCHANGED <<proxies, proxies_snapshot, hproxy>>
            /\ ret' = <<FALSE>>
    /\ UNCHANGED <<current_proxy_index, last_rotation, vpc, vret, hpc, answer, response,
                   outbound, stats, envVars, lock, tpc, targ, cmdVars,
                   sideVars>>

(* -------------------- rotate and get_current_proxy -------------------- *)

\* A mutant of rotate: `len(active_proxies) < 1` for `<= 1`.
rotate_lt ==
    /\ LockFree
    /\ IF Len(active_proxies) < 1
       THEN UNCHANGED <<current_proxy_index, last_rotation>>
       ELSE /\ current_proxy_index' = (current_proxy_index + 1) % Len(active_proxies)
            /\ last_rotation' = now
    /\ UNCHANGED proxies

\* A mutant of rotate: the index is reduced but not advanced.
rotate_stay ==
    /\ LockFree
    /\ IF Len(active_proxies) <= 1
       THEN UNCHANGED <<current_proxy_index, last_rotation>>
       ELSE /\ current_proxy_index' = current_proxy_index % Len(active_proxies)
            /\ last_rotation' = now
    /\ UNCHANGED proxies

\* ProxyPool.rotate: what it does to the pool.
rotate ==
    /\ LockFree
    /\ IF Len(active_proxies) <= 1
       THEN UNCHANGED <<current_proxy_index, last_rotation>>
       ELSE /\ current_proxy_index' = (current_proxy_index + 1) % Len(active_proxies)
            /\ last_rotation' = now
    /\ UNCHANGED proxies

\* A mutant of get_current_proxy: with no active entry it returns the first
\* entry of the pool.
get_current_proxy_fallback(r) ==
    /\ LockFree
    /\ IF active_proxies = <<>>
       THEN /\ r = IF proxies = <<>> THEN None ELSE Addr(proxies[1])
            /\ UNCHANGED current_proxy_index
       ELSE /\ current_proxy_index' = current_proxy_index % Len(active_proxies)
            /\ r = Addr(active_proxies[current_proxy_index' + 1])
    /\ UNCHANGED <<proxies, last_rotation>>

\* ProxyPool.get_current_proxy returning r: what it does to the pool.
get_current_proxy(r) ==
    /\ LockFree
    /\ IF active_proxies = <<>>
       THEN /\ r = None
            /\ UNCHANGED current_proxy_index
       ELSE /\ current_proxy_index' = current_proxy_index % Len(active_proxies)
            /\ r = Addr(active_proxies[current_proxy_index' + 1])
    /\ UNCHANGED <<proxies, last_rotation>>

\* rotate() called by the rotation loop or by any other caller.
rotate_call ==
    /\ rotate
    /\ UNCHANGED <<validatorVars, handlerVars, envVars, threadVars, cmdVars,
                   sideVars>>

\* interactive_mode `rotate`: `proxy.proxy_pool.rotate()` ...
cmd_rotate_call ==
    /\ cpc = "prompt"
    /\ Len(visited) <= Len(active_proxies)
    /\ rotate
    /\ cpc' = "rotated"
    /\ UNCHANGED <<current, visited, current_proxy, count, fresh, spc, status,
                   validatorVars,
                   handlerVars, envVars, threadVars,
                   sideVars>>

\* ... then `current = proxy.proxy_pool.get_current_proxy()`.  The history
\* keeps one full cycle of values and the one after it.
cmd_rotate_get ==
    /\ cpc = "rotated"
    /\ get_current_proxy(current')
    /\ visited' = Append(visited, current')
    /\ cpc' = "prompt"
    /\ UNCHANGED <<current_proxy, count, fresh, spc, status, validatorVars,
                   handlerVars, envVars,
                   threadVars,
                   sideVars>>

(* ------------------- validate_all_proxies / validate_proxy ------------ *)

\* `proxies_snapshot = self.proxies[:]`; the loop body is validate_proxy.
validate_all_proxies ==
    /\ vpc = "idle"
    /\ proxies # <<>>
    /\ proxies_snapshot' = [k \in DOMAIN proxies |-> Addr(proxies[k])]
    /\ sweep' = [k \in DOMAIN proxies |-> Addr(proxies[k])]
    /\ probed' = <<>>
    /\ vpc' = "probe"
    /\ UNCHANGED <<vret, poolVars, handlerVars, envVars, threadVars, cmdVars,
                   healthy, connections, chosen,
                   response_times, samples, wpc, wproxy, wok, wval, started,
                   invocations>>

\* A mutant of NextProbe: a validate_proxy that did not return True ends
\* the sweep.
NextProbeAbort ==
    /\ proxies_snapshot' = IF vpc = "check" THEN <<>> ELSE Tail(proxies_snapshot)
    /\ vpc' = IF vpc = "check" \/ Tail(proxies_snapshot) = <<>> THEN "idle" ELSE "probe"

\* `for proxy in proxies_snapshot` moves on.
NextProbe ==
    /\ proxies_snapshot' = Tail(proxies_snapshot)
    /\ vpc' = IF Tail(proxies_snapshot) = <<>> THEN "idle" ELSE "probe"

\* `opener.open(request, timeout=...)`: the entry at hand is probed.
Probe ==
    /\ probed' = Append(probed, Head(proxies_snapshot))
    /\ sweep' = sweep

\* The bounds on outcome recording.
CanRecordSuccess(ref) ==
    IndexOf(ref) # 0 => proxies[IndexOf(ref)].success_count < MaxSuccesses
CanRecordFailure(ref) ==
    IndexOf(ref) # 0 => proxies[IndexOf(ref)].failure_count < MaxFailures

\* validate_proxy, the probe answered with HTTP 200:
\* `proxy.record_success(response_time)`, `proxy.is_active = True`, and it
\* returns True.
validate_proxy_200 ==
    /\ vpc = "probe"
    /\ CanRecordSuccess(Head(proxies_snapshot))
    /\ proxies' = IF IndexOf(Head(proxies_snapshot)) = 0 THEN proxies
                  ELSE [proxies EXCEPT ![IndexOf(Head(proxies_snapshot))] =
                          [record_success(@) EXCEPT !.is_active = TRUE]]
    /\ vret' = <<TRUE>>
    /\ Probe
    /\ NextProbe
    /\ UNCHANGED <<current_proxy_index, last_rotation, handlerVars, envVars,
                   threadVars, cmdVars, healthy, connections, chosen,
                   response_times, samples, wpc, wproxy, wok, wval, started,
                   invocations>>

\* validate_proxy, the opener raised (connect error, timeout, HTTPError).
validate_proxy_error ==
    /\ vpc = "probe"
    /\ CanRecordFailure(Head(proxies_snapshot))
    /\ proxies' = RecordFailureOn(Head(proxies_snapshot))
    /\ vpc' = "check"
    /\ Probe
    /\ UNCHANGED <<current_proxy_index, last_rotation, proxies_snapshot, vret,
                   handlerVars, envVars, threadVars, cmdVars, healthy, connections, chosen,
                   response_times, samples, wpc, wproxy, wok, wval, started,
                   invocations>>

\* validate_proxy, a response whose code is not 200 and for which urllib
\* does not raise (201, 204, ...): the `with` block ends, nothing recorded.
validate_proxy_other ==
    /\ vpc = "probe"
    /\ vpc' = "check"
    /\ Probe
    /\ UNCHANGED <<poolVars, proxies_snapshot, vret, handlerVars, envVars,
                   threadVars, cmdVars, healthy, connections, chosen,
                   response_times, samples, wpc, wproxy, wok, wval, started,
                   invocations>>

\* `proxy.failure_count > 5 and proxy.get_success_rate() < 0.3`, the rate
\* a fraction with a positive denominator.
OverThreshold(e) ==
    /\ e.failure_count > FailureThreshold
    /\ get_success_rate(e)[1] * RateDen < RateNum * get_success_rate(e)[2]

\* A mutant of ApplyThreshold: the entry over the threshold is deleted.
ApplyThresholdDelete(ref) ==
    IF IndexOf(ref) # 0 /\ OverThreshold(proxies[IndexOf(ref)])
    THEN Pop(proxies, IndexOf(ref))
    ELSE proxies

\* `if ...: proxy.is_active = False`: the list after it.
ApplyThreshold(ref) ==
    IF IndexOf(ref) = 0 THEN proxies
    ELSE [proxies EXCEPT ![IndexOf(ref)] =
            IF OverThreshold(@) THEN [@ EXCEPT !.is_active = FALSE] ELSE @]

\* validate_proxy, after the `try`: the threshold test, then `return False`.
validate_proxy_check ==
    /\ vpc = "check"
    /\ proxies' = ApplyThreshold(Head(proxies_snapshot))
    /\ vret' = <<FALSE>>
    /\ NextProbe
    /\ UNCHANGED <<current_proxy_index, last_rotation, handlerVars, envVars,
                   threadVars, cmdVars,
                   sideVars>>

(* ---------------------------- TrafficStats ---------------------------- *)

\* TrafficStats(), its three request counters.
TrafficStats == [total_requests |-> 0, successful_requests |-> 0, failed_requests |-> 0]

\* TrafficStats.record_request(success, ...): the counters after it.
record_request(success) ==
    [stats EXCEPT !.total_requests = @ + 1,
                  !.successful_requests = IF success THEN @ + 1 ELSE @,
                  !.failed_requests = IF success THEN @ ELSE @ + 1]

(* --------------------------- proxy_request ---------------------------- *)

\* The handler's configuration and the peer of the connection.
TargetAddress == "localhost:80"
Scheme == "http"
ClientAddress == "10.0.0.1"

hop_by_hop == {"connection", "keep-alive", "proxy-authenticate",
               "proxy-authorization", "te", "trailers", "transfer-encoding",
               "upgrade", "host"}

\* A dict is the sequence of its <<key, value>> items in insertion order.
\* d[k] = v: the value is replaced in place, or the item is appended.
DictSet(d, k, v) ==
    IF \E i \in 1..Len(d) : d[i][1] = k
    THEN [i \in 1..Len(d) |-> IF d[i][1] = k THEN <<k, v>> ELSE d[i]]
    ELSE Append(d, <<k, v>>)

\* `for key, value in self.headers.items(): if key.lower() not in
\* hop_by_hop: headers[key] = value`
CopiedHeaders(items) ==
    LET f[i \in 0..Len(items)] ==
            IF i = 0 THEN <<>>
            ELSE IF Lower(items[i][1]) \in hop_by_hop THEN f[i - 1]
                 ELSE DictSet(f[i - 1], items[i][1], items[i][2])
    IN  f[Len(items)]

\* headers['Host'] = ..., headers['X-Forwarded-For'] = ...,
\* headers['X-Forwarded-Proto'] = ..., headers['X-Real-IP'] = ...
InjectedHeaders(d) ==
    DictSet(DictSet(DictSet(DictSet(d, "Host", TargetAddress),
                            "X-Forwarded-For", ClientAddress),
                    "X-Forwarded-Proto", Scheme),
            "X-Real-IP", ClientAddress)

\* urllib.request.Request(..., headers=headers): add_header stores each item
\* under key.capitalize().
RequestHeaders(d) ==
    LET g[i \in 0..Len(d)] ==
            IF i = 0 THEN <<>>
            ELSE DictSet(g[i - 1], Capitalize(d[i][1]), d[i][2])
    IN  g[Len(d)]

\* What the backend answered and what the client has been sent: nothing, or
\* a status and a body.
NoResponse == [status |-> 0, body |-> ""]
Response(code, b) == [status |-> code, body |-> b]

\* The answers of the backend: a 2xx status (200), or a status urllib
\* raises HTTPError for (404), each with a body.
Bodies == {"", "page"}

\* send_error(502 | 504 | 500, ...) for URLError, socket.timeout and any
\* other exception.
GatewayCodes == {502, 504, 500}

\* The `except` clause that sends each of them.
Branch(code) ==
    CASE code = 502 -> "except_url"
      [] code = 504 -> "except_timeout"
      [] OTHER -> "except_other"

\* `proxy = self.proxy_pool.get_current_proxy()`, the outbound request is
\* built and sent.
request_begin ==
    /\ hpc = "idle"
    /\ stats.total_requests < MaxRequests
    /\ get_current_proxy(hproxy')
    /\ outbound' = RequestHeaders(InjectedHeaders(CopiedHeaders(inbound)))
    /\ hpc' = "sent"
    /\ UNCHANGED <<answer, response, stats, validatorVars, envVars, threadVars,
                   cmdVars,
                   sideVars>>

\* The backend answered 2xx and the response was written to the client:
\* `success = True`, `if proxy: proxy.record_success(...)`, then `finally`.
relay_success ==
    /\ hpc = "sent"
    /\ CanRecordSuccess(hproxy)
    /\ \E code \in {200}, b \in Bodies : answer' = Response(code, b)
    /\ response' = answer'
    /\ proxies' = RecordSuccessOn(hproxy)
    /\ stats' = record_request(TRUE)
    /\ hpc' = "try_done"
    /\ UNCHANGED <<current_proxy_index, last_rotation, hproxy, outbound,
                   validatorVars, envVars, threadVars, cmdVars,
                   sideVars>>

\* A mutant of relay_http_error: the client is sent 502 and the exchange is
\* counted as failed.
relay_http_error_as_failure ==
    /\ hpc = "sent"
    /\ CanRecordFailure(hproxy)
    /\ \E code \in {404}, b \in Bodies : answer' = Response(code, b)
    /\ response' = Response(502, "error")
    /\ proxies' = RecordFailureOn(hproxy)
    /\ stats' = record_request(FALSE)
    /\ hpc' = "except_http"
    /\ UNCHANGED <<current_proxy_index, last_rotation, hproxy, outbound,
                   validatorVars, envVars, threadVars, cmdVars,
                   sideVars>>

\* urllib raised HTTPError for the backend's answer: `send_response(e.code)`,
\* the headers and `wfile.write(e.read())`, `success = True`,
\* `if proxy: proxy.record_success(...)`, then `finally`.
relay_http_error ==
    /\ hpc = "sent"
    /\ CanRecordSuccess(hproxy)
    /\ \E code \in {404}, b \in Bodies : answer' = Response(code, b)
    /\ response' = answer'
    /\ proxies' = RecordSuccessOn(hproxy)
    /\ stats' = record_request(TRUE)
    /\ hpc' = "except_http"
    /\ UNCHANGED <<current_proxy_index, last_rotation, hproxy, outbound,
                   validatorVars, envVars, threadVars, cmdVars,
                   sideVars>>

\* URLError, socket.timeout or another exception: send_error writes the
\* synthetic response, `if proxy: proxy.record_failure()`, then `finally`.
relay_failure ==
    /\ hpc = "sent"
    /\ CanRecordFailure(hproxy)
    /\ answer' = NoResponse
    /\ \E code \in GatewayCodes :
         /\ response' = Response(code, "error")
         /\ hpc' = Branch(code)
    /\ proxies' = RecordFailureOn(hproxy)
    /\ stats' = record_request(FALSE)
    /\ UNCHANGED <<current_proxy_index, last_rotation, hproxy, outbound,
                   validatorVars, envVars, threadVars, cmdVars,
                   sideVars>>

\* A mutant of relay_failure_unsent: the exception raised in the `except`
\* clause leaves proxy_request without the `finally` block.
relay_failure_unsent_unrecorded ==
    /\ hpc = "sent"
    /\ answer' = NoResponse
    /\ response' = NoResponse
    /\ \E code \in GatewayCodes : hpc' = Branch(code)
    /\ UNCHANGED <<poolVars, hproxy, outbound, stats, validatorVars, envVars,
                   threadVars, cmdVars,
                   sideVars>>

\* URLError, socket.timeout or another exception, and send_error raises in
\* turn because the client is gone: the exception leaves the `except`
\* clause before `proxy.record_failure()`; `finally` still runs.
relay_failure_unsent ==
    /\ hpc = "sent"
    /\ answer' = NoResponse
    /\ response' = NoResponse
    /\ stats' = record_request(FALSE)
    /\ \E code \in GatewayCodes : hpc' = Branch(code)
    /\ UNCHANGED <<poolVars, hproxy, outbound, validatorVars, envVars,
                   threadVars, cmdVars,
                   sideVars>>

\* A mutant of relay_disconnect: the lost client counts as a failure of the
\* target.
relay_disconnect_recorded ==
    /\ hpc = "sent"
    /\ CanRecordFailure(hproxy)
    /\ \E code \in {200, 404}, b \in Bodies : answer' = Response(code, b)
    /\ response' = NoResponse
    /\ proxies' = RecordFailureOn(hproxy)
    /\ stats' = record_request(FALSE)
    /\ hpc' = "except_pipe"
    /\ UNCHANGED <<current_proxy_index, last_rotation, hproxy, outbound,
                   validatorVars, envVars, threadVars, cmdVars,
                   sideVars>>

\* BrokenPipeError while the backend's answer is written to the client: the
\* client went away; nothing is recorded on the target, `finally` runs with
\* success = False.
relay_disconnect ==
    /\ hpc = "sent"
    /\ \E code \in {200, 404}, b \in Bodies : answer' = Response(code, b)
    /\ response' = NoResponse
    /\ stats' = record_request(FALSE)
    /\ hpc' = "except_pipe"
    /\ UNCHANGED <<poolVars, hproxy, outbound, validatorVars, envVars,
                   threadVars, cmdVars,
                   sideVars>>

\* proxy_request returns and its locals are gone.
request_end ==
    /\ hpc \notin {"idle", "sent"}
    /\ hpc' = "idle"
    /\ hproxy' = None
    /\ outbound' = <<>>
    /\ answer' = NoResponse
    /\ response' = NoResponse
    /\ UNCHANGED <<poolVars, stats, validatorVars, envVars, threadVars, cmdVars,
                   sideVars>>

(* ----------------------------- get_status ----------------------------- *)

\* ReverseProxy.get_status: `current_proxy = self.proxy_pool.get_current_proxy()`;
\* the rest of it reads.
get_status ==
    /\ get_current_proxy(current_proxy')
    /\ UNCHANGED <<cpc, current, visited, count, fresh, spc, status,
                   validatorVars, handlerVars,
                   envVars, threadVars,
                   sideVars>>

\* get_status statement by statement, the caller being the thread "status".
\* `with self._lock:` is entered, in get_current_proxy when get_status is
\* called and in get_stats later.
get_status_acquire ==
    /\ spc \in {"idle", "returned", "stats_wait"}
    /\ Acquire("status")
    /\ spc' = IF spc = "stats_wait" THEN "stats" ELSE "select"
    /\ UNCHANGED <<cpc, current, visited, current_proxy, count, fresh, status,
                   poolVars, validatorVars, handlerVars, envVars, tpc, targ, ret,
                   sideVars>>

\* The body of get_current_proxy; the lock is released as it returns.
get_status_current ==
    /\ spc = "select"
    /\ IF active_proxies = <<>>
       THEN /\ current_proxy' = None
            /\ UNCHANGED current_proxy_index
       ELSE /\ current_proxy_index' = current_proxy_index % Len(active_proxies)
            /\ current_proxy' = Addr(active_proxies[current_proxy_index' + 1])
    /\ Release
    /\ spc' = "dict"
    /\ UNCHANGED <<cpc, current, visited, count, fresh, status, proxies,
                   last_rotation, validatorVars, handlerVars, envVars, tpc, targ,
                   ret, sideVars>>

\* `"current_proxy": current_proxy.to_dict() if current_proxy else None`
\* reads the entry's is_active now; an entry that has left the pool is as
\* it was when it was selected.
get_status_dict ==
    /\ spc = "dict"
    /\ status' = [status EXCEPT
                     !.current_proxy = current_proxy,
                     !.is_active = IF IndexOf(current_proxy) = 0
                                   THEN current_proxy # None
                                   ELSE proxies[IndexOf(current_proxy)].is_active]
    /\ spc' = "count"
    /\ UNCHANGED <<cpc, current, visited, current_proxy, count, fresh, poolVars,
                   validatorVars, handlerVars, envVars, threadVars, sideVars>>

\* `"proxy_count": len(self.proxy_pool.proxies)`
get_status_count ==
    /\ spc = "count"
    /\ status' = [status EXCEPT !.proxy_count = Len(proxies)]
    /\ spc' = "active"
    /\ UNCHANGED <<cpc, current, visited, current_proxy, count, fresh, poolVars,
                   validatorVars, handlerVars, envVars, threadVars, sideVars>>

\* `"active_proxy_count": len([p for p in self.proxy_pool.proxies if p.is_active])`
get_status_active ==
    /\ spc = "active"
    /\ status' = [status EXCEPT !.active_proxy_count = Len(active_proxies)]
    /\ spc' = "stats_wait"
    /\ UNCHANGED <<cpc, current, visited, current_proxy, count, fresh, poolVars,
                   validatorVars, handlerVars, envVars, threadVars, sideVars>>

\* `"proxy_stats": self.proxy_pool.get_stats()`: the list of dicts is built
\* under the lock, the lock is released and get_status returns.
get_status_stats ==
    /\ spc = "stats"
    /\ status' = [status EXCEPT !.proxy_stats = Len(proxies)]
    /\ Release
    /\ spc' = "returned"
    /\ UNCHANGED <<cpc, current, visited, current_proxy, count, fresh, poolVars,
                   validatorVars, handlerVars, envVars, tpc, targ, ret, sideVars>>

(* --------------------------- the clear command ------------------------ *)

\* interactive_mode `clear`, its first statement: `proxy.stats =
\* TrafficStats()`.  ReverseProxyHandler.stats still names the old object.
clear_assign ==
    /\ cpc = "prompt"
    /\ fresh = <<>>
    /\ fresh' = <<TrafficStats>>
    /\ cpc' = "clear"
    /\ UNCHANGED <<current, visited, current_proxy, count, spc, status, poolVars,
                   validatorVars, handlerVars, envVars, threadVars, sideVars>>

\* ... and its second: `ReverseProxyHandler.stats = proxy.stats`.  The old
\* object is dropped with what it has counted.
clear_publish ==
    /\ cpc = "clear"
    /\ stats' = fresh[1]
    /\ fresh' = <<>>
    /\ cpc' = "prompt"
    /\ UNCHANGED <<current, visited, current_proxy, count, spc, status, poolVars,
                   validatorVars, hproxy, hpc, answer, response, outbound, envVars,
                   threadVars, sideVars>>

(* ------------------------------- files -------------------------------- *)

\* A line of text is the sequence of its tokens: ":", "#" and " " are tokens
\* of their own, a run of other characters is one token.  The characters of
\* a string, and the string of a sequence of characters:
Chars(h) ==
    CASE h = "" -> <<>>
      [] h = "::1" -> <<":", ":", "1">>
      [] h = "#h" -> <<"#", "h">>
      [] OTHER -> <<h>>

Unchars(cs) ==
    CHOOSE h \in {"", "::1", "#h", "h", "h1", "h2", "1", "2", "x", "http", "HTTP", "ftp"} :
        Chars(h) = cs

\* What save_to_file writes for a list of entries, one
\* f"{proxy.host}:{proxy.port}:{proxy.proxy_type}\n" each.
FileLines(pool) ==
    [k \in 1..Len(pool) |->
        Chars(pool[k].host) \o <<":", ToString(pool[k].port), ":", pool[k].proxy_type>>]

save_to_file ==
    /\ file' = [exists |-> TRUE, lines |-> FileLines(proxies)]
    /\ UNCHANGED <<poolVars, validatorVars, handlerVars, now, running, inbound,
                   listen_port, lifeVars, threadVars, cmdVars,
                   sideVars>>

\* str.strip()
Strip(line) ==
    LET S == {i \in 1..Len(line) : line[i] # " "}
    IN  IF S = {} THEN <<>>
        ELSE SubSeq(line, Min(S), CHOOSE x \in S : \A y \in S : x >= y)

\* str.split(':')
Split(line) ==
    LET colons == {i \in 1..Len(line) : line[i] = ":"}
        n == Cardinality(colons)
        kth(k) == CHOOSE i \in colons : Cardinality({j \in colons : j < i}) = k - 1
    IN  [k \in 1..(n + 1) |->
            SubSeq(line, IF k = 1 THEN 1 ELSE kth(k - 1) + 1,
                         IF k = n + 1 THEN Len(line) ELSE kth(k) - 1)]

\* int(s) succeeds on a decimal numeral, with blanks around it or not, and
\* raises ValueError on anything else.
IsInt(cs) == Len(Strip(cs)) = 1 /\ \E p \in 0..9 : ToString(p) = Strip(cs)[1]
IntOf(cs) == CHOOSE p \in 0..9 : ToString(p) = Strip(cs)[1]

\* add_proxy on a list: whether it appends an entry and returns True.
Adds(pool, h, p, t) ==
    TypeOk(t) /\ \A i \in 1..Len(pool) : ~(pool[i].host = h /\ pool[i].port = p)

\* The body of `for line in f` in load_from_file, on the pool and the count
\* so far.
LoadLine(st, line) ==
    LET l == Strip(line)
        parts == Split(l)
        t == IF Len(parts) > 2 THEN Unchars(parts[3]) ELSE "http"
    IN  IF l = <<>> \/ l[1] = "#" THEN st
        ELSE IF Len(parts) < 2 THEN st
        ELSE IF ~IsInt(parts[2]) THEN st
        ELSE IF Adds(st.pool, Unchars(parts[1]), IntOf(parts[2]), t)
             THEN [pool |-> Append(st.pool, ProxyEntry(Unchars(parts[1]),
                                                       IntOf(parts[2]), Lower(t))),
                   count |-> st.count + 1]
             ELSE st

\* A mutant of Loaded: the ValueError of int() ends the load.
LoadedUntilBadPort(pool, lines) ==
    LET bad(line) == /\ Strip(line) # <<>>
                     /\ Strip(line)[1] # "#"
                     /\ Len(Split(Strip(line))) >= 2
                     /\ ~IsInt(Split(Strip(line))[2])
        f[i \in 0..Len(lines)] ==
            IF i = 0 THEN [pool |-> pool, count |-> 0]
            ELSE IF \E j \in 1..i : bad(lines[j]) THEN f[i - 1]
                 ELSE LoadLine(f[i - 1], lines[i])
    IN  f[Len(lines)]

\* load_from_file on a list and the lines of a file: the list and the count
\* after the last line.
Loaded(pool, lines) ==
    LET f[i \in 0..Len(lines)] ==
            IF i = 0 THEN [pool |-> pool, count |-> 0]
            ELSE LoadLine(f[i - 1], lines[i])
    IN  f[Len(lines)]

\* load_from_file from call to return; FileNotFoundError is logged.
load_from_file ==
    /\ LockFree
    /\ UNCHANGED <<current_proxy_index, last_rotation, cpc, current, visited,
                   fresh, spc, status,
                   current_proxy, validatorVars, handlerVars, envVars, threadVars,
                   sideVars>>
    /\ IF file.exists
       THEN /\ proxies' = Loaded(proxies, file.lines).pool
            /\ count' = Loaded(proxies, file.lines).count
       ELSE /\ proxies' = proxies
            /\ count' = 0

\* The lines an editor may leave in the proxy file: those load_from_file
\* skips (blank, comment, no port, a port that is no number, an unknown
\* kind) and those it reads (without a kind, and padded with a kind in upper
\* case).
SkippedLines ==
    {<<" ">>,
     <<"#", "h1", ":", "1">>,
     <<"h1">>,
     <<"h1", ":", "x">>,
     <<"h1", ":", "1", ":", "ftp">>}
ReadLines ==
    {<<"h1", ":", "1">>,
     <<" ", "h2", ":", "2", ":", "HTTP", " ">>}

\* The proxy file is written by hand.
edit_file(lines) ==
    /\ file' = [exists |-> TRUE, lines |-> lines]
    /\ UNCHANGED <<poolVars, validatorVars, handlerVars, now, running, inbound,
                   listen_port, lifeVars, threadVars, cmdVars,
                   sideVars>>

(* ----------------------------- lifecycle ------------------------------- *)

\* ProxyPool.start_rotation called on its own: the flag the loops test is
\* set and a rotation thread is started.
start_rotation ==
    /\ loops.rotation < MaxServers
    /\ running' = TRUE
    /\ loops' = [loops EXCEPT !.rotation = @ + 1]
    /\ UNCHANGED <<poolVars, validatorVars, handlerVars, now, file, inbound,
                   listen_port, proxy_running, servers, lpc, threadVars, cmdVars,
                   sideVars>>

\* ProxyPool.stop
stop ==
    /\ running' = FALSE
    /\ UNCHANGED <<poolVars, validatorVars, handlerVars, now, file, inbound,
                   listen_port, lifeVars, threadVars, cmdVars,
                   sideVars>>

\* socketserver.ThreadingTCPServer((listen_host, listen_port), ...) binds in
\* its constructor: port 0 asks for any free port; a fixed port is free
\* unless a server of this instance is bound to it.

\* ReverseProxy.start, the server bound: start_rotation, start_validation,
\* `self._running = True` and the accept thread.
start ==
    /\ cpc = "prompt"
    /\ (listen_port = 0 \/ servers = 0)
    /\ servers < MaxServers
    /\ servers' = servers + 1
    /\ running' = TRUE
    /\ loops' = [rotation |-> loops.rotation + 1,
                 validation |-> loops.validation + 1,
                 serve |-> loops.serve + 1]
    /\ proxy_running' = TRUE
    /\ UNCHANGED <<poolVars, validatorVars, handlerVars, now, file, inbound,
                   listen_port, lpc, threadVars, cmdVars,
                   sideVars>>

\* ReverseProxy.start, the constructor of the server raises OSError (address
\* in use): start is left before anything else is done.
start_bind_error ==
    /\ cpc = "prompt"
    /\ ~(listen_port = 0 \/ servers = 0)
    /\ UNCHANGED vars

\* interactive_mode `start`: `if not proxy._running: proxy.start()`, else a
\* message.
cmd_start ==
    /\ cpc = "prompt"
    /\ IF proxy_running THEN UNCHANGED vars ELSE (start \/ start_bind_error)

\* ReverseProxy.stop: the flags are cleared, then `self.server.shutdown()`,
\* which waits for a serve_forever loop; _serve runs handle_request instead,
\* so the caller stays in shutdown().
proxy_stop ==
    /\ cpc = "prompt"
    /\ proxy_running' = FALSE
    /\ running' = FALSE
    /\ cpc' = IF servers > 0 THEN "shutdown" ELSE cpc
    /\ UNCHANGED <<poolVars, validatorVars, handlerVars, now, file, inbound,
                   listen_port, servers, loops, lpc, threadVars, current, visited,
                   current_proxy, count, fresh, spc, status,
                   sideVars>>

\* rotation_loop, awake: `if self._running: self.rotate()`
rotation_loop ==
    /\ loops.rotation > 0
    /\ IF running THEN rotate_call ELSE UNCHANGED vars

\* rotation_loop or validation_loop, `while self._running:` tested with the
\* flag cleared: the thread leaves its loop and ends.
loop_exit(k) ==
    /\ loops[k] > 0
    /\ ~running
    /\ loops' = [loops EXCEPT ![k] = @ - 1]
    /\ UNCHANGED <<poolVars, validatorVars, handlerVars, now, running, file, inbound,
                   listen_port, proxy_running, servers, lpc, threadVars, cmdVars,
                   sideVars>>

\* The three loops step by step, for one thread of each kind: rotation_loop
\* and validation_loop test ProxyPool._running, _serve tests
\* ReverseProxy._running.
LoopStep ==
    UNCHANGED <<poolVars, validatorVars, handlerVars, now, running, file, inbound,
                listen_port, proxy_running, servers, loops, threadVars, cmdVars,
                sideVars>>

\* `while self._running:` entered or left.
loop_while(k) ==
    /\ lpc[k] = "while"
    /\ lpc' = [lpc EXCEPT ![k] =
                 IF k = "serve"
                 THEN IF proxy_running THEN "accept" ELSE "done"
                 ELSE IF running THEN "sleep" ELSE "done"]
    /\ LoopStep

\* `time.sleep(interval)` returns.
loop_wake(k) ==
    /\ k # "serve"
    /\ lpc[k] = "sleep"
    /\ lpc' = [lpc EXCEPT ![k] = "if"]
    /\ LoopStep

\* A mutant of loop_if: the flag is not tested again after the sleep.
loop_if_untested(k) ==
    /\ lpc[k] = "if"
    /\ lpc' = [lpc EXCEPT ![k] = "call"]
    /\ LoopStep

\* `if self._running:` after the sleep.
loop_if(k) ==
    /\ lpc[k] = "if"
    /\ lpc' = [lpc EXCEPT ![k] = IF running THEN "call" ELSE "while"]
    /\ LoopStep

\* rotation_loop: `self.rotate()`
rotation_loop_call ==
    /\ lpc["rotation"] = "call"
    /\ rotate
    /\ lpc' = [lpc EXCEPT !["rotation"] = "while"]
    /\ UNCHANGED <<validatorVars, handlerVars, now, running, file, inbound,
                   listen_port, proxy_running, servers, loops, threadVars, cmdVars,
                   sideVars>>

\* validation_loop: `self.validate_all_proxies()` takes its snapshot ...
validation_loop_call ==
    /\ lpc["validation"] = "call"
    /\ vpc = "idle"
    /\ proxies_snapshot' = [k \in DOMAIN proxies |-> Addr(proxies[k])]
    /\ sweep' = [k \in DOMAIN proxies |-> Addr(proxies[k])]
    /\ probed' = <<>>
    /\ vpc' = IF proxies = <<>> THEN "idle" ELSE "probe"
    /\ lpc' = [lpc EXCEPT !["validation"] = "sweep"]
    /\ UNCHANGED <<vret, poolVars, handlerVars, now, running, file, inbound,
                   listen_port, proxy_running, servers, loops, threadVars, cmdVars,
                   healthy, connections, chosen, response_times, samples,
                   wpc, wproxy, wok, wval, started, invocations>>

\* ... and returns after the last validate_proxy.
validation_loop_return ==
    /\ lpc["validation"] = "sweep"
    /\ vpc = "idle"
    /\ lpc' = [lpc EXCEPT !["validation"] = "while"]
    /\ LoopStep

\* _serve: `self.server.handle_request()` returns: a request was handed to a
\* new handler thread, or nothing was accepted.
serve_accept ==
    /\ lpc["serve"] = "accept"
    /\ lpc' = [lpc EXCEPT !["serve"] = "while"]
    /\ LoopStep

\* A mutant of serve_error: the exception leaves _serve.
serve_error_uncaught ==
    /\ lpc["serve"] = "accept"
    /\ lpc' = [lpc EXCEPT !["serve"] = "done"]
    /\ LoopStep

\* _serve: handle_request raises, `except Exception as e:` is entered ...
serve_error ==
    /\ lpc["serve"] = "accept"
    /\ lpc' = [lpc EXCEPT !["serve"] = "except"]
    /\ LoopStep

\* ... `if self._running: logger.exception(...)`, and the loop goes on.
serve_except ==
    /\ lpc["serve"] = "except"
    /\ lpc' = [lpc EXCEPT !["serve"] = "while"]
    /\ LoopStep

\* Time passes.
Tick ==
    /\ now < MaxTime
    /\ now' = now + 1
    /\ UNCHANGED <<poolVars, validatorVars, handlerVars, running, file, inbound,
                   listen_port, lifeVars, threadVars, cmdVars,
                   sideVars>>

(* ------------- add_proxy and remove_proxy, step by step --------------- *)

NoArgs == [host |-> "", port |-> 0, proxy_type |-> "", i |-> 0]

\* `return v`: the thread is back at its caller.
Return(t, v) ==
    /\ ret' = <<v>>
    /\ tpc' = [tpc EXCEPT ![t] = "idle"]
    /\ targ' = [targ EXCEPT ![t] = NoArgs]

Goto(t, pos) == tpc' = [tpc EXCEPT ![t] = pos]

\* A thread calls add_proxy(h, p, ty).
add_proxy_call(t, h, p, ty) ==
    /\ tpc[t] = "idle"
    /\ Goto(t, "add_check")
    /\ targ' = [targ EXCEPT ![t] = [host |-> h, port |-> p, proxy_type |-> ty, i |-> 0]]
    /\ UNCHANGED <<poolVars, validatorVars, handlerVars, envVars, lock, ret, cmdVars,
                   sideVars>>

\* `if proxy_type.lower() not in valid_types: return False`, then
\* `proxy_type = proxy_type.lower()`
add_proxy_check(t) ==
    /\ tpc[t] = "add_check"
    /\ IF TypeOk(targ[t].proxy_type)
       THEN /\ Goto(t, "add_wait")
            /\ targ' = [targ EXCEPT ![t].proxy_type = Lower(@)]
            /\ UNCHANGED ret
       ELSE Return(t, FALSE)
    /\ UNCHANGED <<poolVars, validatorVars, handlerVars, envVars, lock, cmdVars,
                   sideVars>>

\* `with self._lock:`
add_proxy_acquire(t) ==
    /\ tpc[t] = "add_wait"
    /\ Acquire(t)
    /\ Goto(t, "add_scan")
    /\ UNCHANGED <<poolVars, validatorVars, handlerVars, envVars, targ, ret, cmdVars,
                   sideVars>>

\* A mutant of add_proxy_scan: the early return leaves the lock held.
add_proxy_scan_held(t) ==
    /\ tpc[t] = "add_scan"
    /\ IF Matches(targ[t].host, targ[t].port) # {}
       THEN Return(t, FALSE) /\ UNCHANGED lock
       ELSE Goto(t, "add_append") /\ UNCHANGED <<targ, ret, lock>>
    /\ UNCHANGED <<poolVars, validatorVars, handlerVars, envVars, cmdVars,
                   sideVars>>

\* `for proxy in self.proxies: if ...: return False`
add_proxy_scan(t) ==
    /\ tpc[t] = "add_scan"
    /\ IF Matches(targ[t].host, targ[t].port) # {}
       THEN Return(t, FALSE) /\ Release
       ELSE Goto(t, "add_append") /\ UNCHANGED <<targ, ret, lock>>
    /\ UNCHANGED <<poolVars, validatorVars, handlerVars, envVars, cmdVars,
                   sideVars>>

\* `self.proxies.append(proxy)`, `return True`
add_proxy_append(t) ==
    /\ tpc[t] = "add_append"
    /\ proxies' = Appended(targ[t].host, targ[t].port, targ[t].proxy_type)
    /\ Return(t, TRUE)
    /\ Release
    /\ UNCHANGED <<current_proxy_index, last_rotation, validatorVars,
                   handlerVars, envVars, cmdVars,
                   sideVars>>

\* A thread calls remove_proxy(h, p).
remove_proxy_call(t, h, p) ==
    /\ tpc[t] = "idle"
    /\ Goto(t, "remove_wait")
    /\ targ' = [targ EXCEPT ![t] = [host |-> h, port |-> p, proxy_type |-> "", i |-> 0]]
    /\ UNCHANGED <<poolVars, validatorVars, handlerVars, envVars, lock, ret, cmdVars,
                   sideVars>>

\* `with self._lock:`
remove_proxy_acquire(t) ==
    /\ tpc[t] = "remove_wait"
    /\ Acquire(t)
    /\ Goto(t, "remove_scan")
    /\ UNCHANGED <<poolVars, validatorVars, handlerVars, envVars, targ, ret, cmdVars,
                   sideVars>>

\* `for i, proxy in enumerate(self.proxies): if ...:` up to the match, or
\* `return False` after the loop.
remove_proxy_scan(t) ==
    /\ tpc[t] = "remove_scan"
    /\ IF Matches(targ[t].host, targ[t].port) = {}
       THEN Return(t, FALSE) /\ Release
       ELSE /\ Goto(t, "remove_pop")
            /\ targ' = [targ EXCEPT ![t].i = Min(Matches(targ[t].host, targ[t].port))]
            /\ UNCHANGED <<ret, lock>>
    /\ UNCHANGED <<poolVars, validatorVars, handlerVars, envVars, cmdVars,
                   sideVars>>

\* `self.proxies.pop(i)`, `return True`.  pop raises IndexError past the end
\* of the list, which leaves the list as it is.
remove_proxy_pop(t) ==
    /\ tpc[t] = "remove_pop"
    /\ IF targ[t].i <= Len(proxies)
       THEN RemoveAt(targ[t].i)
       ELSE UNCHANGED <<proxies, proxies_snapshot, hproxy>>
    /\ Return(t, TRUE)
    /\ Release
    /\ UNCHANGED <<current_proxy_index, last_rotation, vpc, vret, hpc, answer, response,
                   outbound, stats, envVars, cmdVars, sideVars>>

(* ------------------------ least-connections --------------------------- *)

\* The targets of the selection and the largest in-flight count explored.
Targets == {"A", "B", "C"}
MaxInFlight == 3

\* The scan for the minimum: position i of h is taken for `best` when its
\* count is strictly less than the count of the best position so far.
RECURSIVE ScanLeast(_, _, _, _)
\* A mutant of ScanLeast: a later target with an equal count is taken.
ScanLeastOrEqual(h, c, i, best) ==
    IF i > Len(h) THEN best
    ELSE ScanLeast(h, c, i + 1, IF c[h[i]] <= c[h[best]] THEN i ELSE best)

ScanLeast(h, c, i, best) ==
    IF i > Len(h) THEN best
    ELSE ScanLeast(h, c, i + 1, IF c[h[i]] < c[h[best]] THEN i ELSE best)

OtherThanSelection ==
    UNCHANGED <<poolVars, validatorVars, handlerVars, envVars, threadVars, cmdVars,
                healthy, sweep, probed, response_times, samples, wpc, wproxy, wok,
                wval, started, invocations>>

\* next(healthySet, least-connections, state): the healthy target with the
\* minimum in-flight count, the first one in iteration order among equals;
\* None, here <<>>, over an empty healthy set.
select ==
    /\ chosen' = IF healthy = <<>> THEN <<>>
                  ELSE <<healthy[ScanLeast(healthy, connections, 2, 1)]>>
    /\ UNCHANGED connections
    /\ OtherThanSelection

\* The connection is dispatched to the target selected: its count is
\* incremented ...
dispatch ==
    /\ chosen # <<>>
    /\ connections[chosen[1]] < MaxInFlight
    /\ connections' = [connections EXCEPT ![chosen[1]] = @ + 1]
    /\ chosen' = <<>>
    /\ OtherThanSelection

\* ... and decremented when the connection completes.
complete(t) ==
    /\ connections[t] > 0
    /\ connections' = [connections EXCEPT ![t] = @ - 1]
    /\ UNCHANGED chosen
    /\ OtherThanSelection

(* ------------------ the worker threads, statement by statement -------- *)

\* record_success(response_time) on the first entry of the pool, with its
\* list of response times: `self.response_times.append(response_time)`, then
\* `if len(self.response_times) > 100:
\*      self.response_times = self.response_times[-100:]`
record_success_call(rt) ==
    /\ proxies # <<>>
    /\ Len(samples) < MaxSamples
    /\ proxies' = [proxies EXCEPT ![1] = record_success(@)]
    /\ response_times' = IF Len(response_times) + 1 > WindowCap
                          THEN Last(Append(response_times, rt), WindowCap)
                          ELSE Append(response_times, rt)
    /\ samples' = Append(samples, rt)
    /\ UNCHANGED <<current_proxy_index, last_rotation, validatorVars, handlerVars,
                   envVars, threadVars, cmdVars, healthy, connections, chosen,
                   sweep, probed, wpc, wproxy, wok, wval, started, invocations>>

\* record_failure() on the first entry of the pool.
record_failure_call ==
    /\ proxies # <<>>
    /\ proxies[1].failure_count < MaxFailures
    /\ proxies' = [proxies EXCEPT ![1] = record_failure(@)]
    /\ UNCHANGED <<current_proxy_index, last_rotation, validatorVars, handlerVars,
                   envVars, threadVars, cmdVars, sideVars>>

\* Two handler threads of the ThreadingTCPServer and the validation thread
\* "v", and the most calls they begin between them.
Handlers == {"w1", "w2"}
Workers == Handlers \cup {"v"}
MaxCalls == 3

\* What a statement of proxy_request or validate_proxy leaves alone, besides
\* the pool, the statistics and the thread's own locals.
PoolOnly ==
    UNCHANGED <<validatorVars, hproxy, hpc, answer, response, outbound, envVars,
                tpc, targ, ret, cmdVars, healthy, connections, chosen, sweep,
                probed, response_times, samples>>

\* proxy_request: `self.proxy_pool.get_current_proxy()` is called and
\* `with self._lock:` is entered ...
worker_begin(w) ==
    /\ w \in Handlers
    /\ wpc[w] = "idle"
    /\ started < MaxCalls
    /\ started' = started + 1
    /\ Acquire(w)
    /\ wpc' = [wpc EXCEPT ![w] = "locked"]
    /\ PoolOnly
    /\ UNCHANGED <<poolVars, stats, wproxy, wok, wval, invocations>>

\* A mutant of worker_select: get_current_proxy returns with the lock held.
worker_select_locked(w) ==
    /\ wpc[w] = "locked"
    /\ IF active_proxies = <<>>
       THEN /\ wproxy' = [wproxy EXCEPT ![w] = None]
            /\ UNCHANGED current_proxy_index
       ELSE /\ current_proxy_index' = current_proxy_index % Len(active_proxies)
            /\ wproxy' = [wproxy EXCEPT
                            ![w] = Addr(active_proxies[current_proxy_index' + 1])]
    /\ wpc' = [wpc EXCEPT ![w] = "open"]
    /\ PoolOnly
    /\ UNCHANGED <<lock, proxies, last_rotation, stats, wok, wval, started,
                   invocations>>

\* ... the body of get_current_proxy, and the lock is left on return.
worker_select(w) ==
    /\ wpc[w] = "locked"
    /\ IF active_proxies = <<>>
       THEN /\ wproxy' = [wproxy EXCEPT ![w] = None]
            /\ UNCHANGED current_proxy_index
       ELSE /\ current_proxy_index' = current_proxy_index % Len(active_proxies)
            /\ wproxy' = [wproxy EXCEPT
                            ![w] = Addr(active_proxies[current_proxy_index' + 1])]
    /\ Release
    /\ wpc' = [wpc EXCEPT ![w] = "open"]
    /\ PoolOnly
    /\ UNCHANGED <<proxies, last_rotation, stats, wok, wval, started, invocations>>

\* proxy_request: `opener.open(request, timeout=30)` and the response, or
\* the error response, written to the client; then `if proxy:`.
worker_open(w) ==
    /\ wpc[w] = "open"
    /\ \E ok \in BOOLEAN : wok' = [wok EXCEPT ![w] = ok]
    /\ wpc' = [wpc EXCEPT ![w] = IF wproxy[w] = None THEN "total" ELSE "count"]
    /\ PoolOnly
    /\ UNCHANGED <<lock, poolVars, stats, wproxy, wval, started, invocations>>

\* validate_all_proxies reaches an entry: validate_proxy(proxy) and its
\* `opener.open(request, timeout=self.validation_timeout)` ...
validator_probe ==
    /\ wpc["v"] = "idle"
    /\ started < MaxCalls
    /\ started' = started + 1
    /\ proxies # <<>>
    /\ wproxy' = [wproxy EXCEPT !["v"] = Addr(proxies[1])]
    /\ wpc' = [wpc EXCEPT !["v"] = "probe"]
    /\ PoolOnly
    /\ UNCHANGED <<lock, poolVars, stats, wok, wval, invocations>>

\* ... which answers 200, or raises.
validator_outcome ==
    /\ wpc["v"] = "probe"
    /\ \E ok \in BOOLEAN : wok' = [wok EXCEPT !["v"] = ok]
    /\ wpc' = [wpc EXCEPT !["v"] = "count"]
    /\ PoolOnly
    /\ UNCHANGED <<lock, poolVars, stats, wproxy, wval, started, invocations>>

\* record_success / record_failure: `self.success_count += 1` or
\* `self.failure_count += 1` reads the attribute ...
count_load(w) ==
    /\ wpc[w] = "count"
    /\ wval' = [wval EXCEPT ![w] =
                  IF wok[w] THEN proxies[IndexOf(wproxy[w])].success_count
                            ELSE proxies[IndexOf(wproxy[w])].failure_count]
    /\ wpc' = [wpc EXCEPT ![w] = "count_store"]
    /\ PoolOnly
    /\ UNCHANGED <<lock, poolVars, stats, wproxy, wok, started, invocations>>

\* ... and writes the sum back.
count_store(w) ==
    /\ wpc[w] = "count_store"
    /\ proxies' = [proxies EXCEPT ![IndexOf(wproxy[w])] =
                      IF wok[w] THEN [@ EXCEPT !.success_count = wval[w] + 1]
                                ELSE [@ EXCEPT !.failure_count = wval[w] + 1]]
    /\ wpc' = [wpc EXCEPT ![w] = IF w \in Handlers THEN "total" ELSE "return"]
    /\ PoolOnly
    /\ UNCHANGED <<lock, current_proxy_index, last_rotation, stats, wproxy, wok,
                   wval, started, invocations>>

\* validate_proxy after a 200: `proxy.is_active = True`, `return True`;
\* after the `try`: the threshold test, `return False`.
validator_return ==
    /\ wpc["v"] = "return"
    /\ proxies' = IF wok["v"]
                   THEN [proxies EXCEPT ![IndexOf(wproxy["v"])] = [@ EXCEPT !.is_active = TRUE]]
                   ELSE ApplyThreshold(wproxy["v"])
    /\ wpc' = [wpc EXCEPT !["v"] = "idle"]
    /\ PoolOnly
    /\ UNCHANGED <<lock, current_proxy_index, last_rotation, stats, wproxy, wok,
                   wval, started, invocations>>

\* record_request: `self.total_requests += 1`, then
\* `self.successful_requests += 1` or `self.failed_requests += 1`: the
\* attribute is read ...
stats_load(w) ==
    /\ wpc[w] \in {"total", "outcome"}
    /\ wval' = [wval EXCEPT ![w] =
                  IF wpc[w] = "total" THEN stats.total_requests
                  ELSE IF wok[w] THEN stats.successful_requests
                  ELSE stats.failed_requests]
    /\ wpc' = [wpc EXCEPT ![w] = IF wpc[w] = "total" THEN "total_store"
                                                      ELSE "outcome_store"]
    /\ PoolOnly
    /\ UNCHANGED <<lock, poolVars, stats, wproxy, wok, started, invocations>>

\* ... and the sum is written back; after the second one record_request
\* returns.
stats_store(w) ==
    /\ wpc[w] \in {"total_store", "outcome_store"}
    /\ stats' = IF wpc[w] = "total_store"
                 THEN [stats EXCEPT !.total_requests = wval[w] + 1]
                 ELSE IF wok[w]
                 THEN [stats EXCEPT !.successful_requests = wval[w] + 1]
                 ELSE [stats EXCEPT !.failed_requests = wval[w] + 1]
    /\ invocations' = IF wpc[w] = "total_store" THEN invocations
                                                 ELSE invocations + 1
    /\ wpc' = [wpc EXCEPT ![w] = IF wpc[w] = "total_store" THEN "outcome"
                                                            ELSE "idle"]
    /\ PoolOnly
    /\ UNCHANGED <<lock, poolVars, wproxy, wok, wval, started>>

\* No selection under way, no sweep made yet, no response time recorded and
\* no worker thread in a call.
Aside ==
    /\ healthy = <<>>
    /\ connections = [t \in Targets |-> 0]
    /\ chosen = <<>>
    /\ sweep = <<>>
    /\ probed = <<>>
    /\ response_times = <<>>
    /\ samples = <<>>
    /\ wpc = [w \in Workers |-> "idle"]
    /\ wproxy = [w \in Workers |-> None]
    /\ wok = [w \in Workers |-> FALSE]
    /\ wval = [w \in Workers |-> 0]
    /\ started = 0
    /\ invocations = 0

(* --------------------------- specifications --------------------------- *)

\* ReverseProxy.__init__: `listen_port: int = 8888`
DefaultPort == 8888

\* All but the pool after ReverseProxy.__init__, with no thread in a call,
\* no request on its way and no proxy file.
Idle ==
    /\ now = 0
    /\ proxies_snapshot = <<>>
    /\ vpc = "idle"
    /\ vret = <<>>
    /\ hproxy = None
    /\ hpc = "idle"
    /\ answer = NoResponse
    /\ response = NoResponse
    /\ outbound = <<>>
    /\ running = FALSE
    /\ proxy_running = FALSE
    /\ servers = 0
    /\ loops = [rotation |-> 0, validation |-> 0, serve |-> 0]
    /\ lpc = [rotation |-> "none", validation |-> "none", serve |-> "none"]
    /\ file = [exists |-> FALSE, lines |-> <<>>]
    /\ lock = NoThread
    /\ tpc = [t \in Threads |-> "idle"]
    /\ targ = [t \in Threads |-> NoArgs]
    /\ ret = <<>>
    /\ cpc = "prompt"
    /\ current = None
    /\ visited = <<>>
    /\ current_proxy = None
    /\ count = 0
    /\ fresh = <<>>
    /\ spc = "idle"
    /\ status = [current_proxy |-> None, is_active |-> FALSE, proxy_count |-> 0,
                 active_proxy_count |-> 0, proxy_stats |-> 0]

\* The state after ReverseProxy.__init__ with its default arguments.
Init ==
    /\ proxies = <<>>
    /\ current_proxy_index = 0
    /\ last_rotation = 0
    /\ inbound = <<>>
    /\ listen_port = DefaultPort
    /\ stats = TrafficStats
    /\ Idle
    /\ Aside

Next ==
    \/ \E a \in Addrs, ty \in KindInputs : add_proxy(a[1], a[2], ty)
    \/ \E a \in Addrs : remove_proxy(a[1], a[2])
    \/ rotate_call
    \/ validate_all_proxies
    \/ validate_proxy_200
    \/ validate_proxy_error
    \/ validate_proxy_other
    \/ validate_proxy_check
    \/ get_status

Spec == Init /\ [][Next]_vars

\* Two threads in add_proxy and remove_proxy, and rotation beside them.
NextLock ==
    \/ \E t \in Threads, a \in Addrs \cup {<<"h2", 1>>}, ty \in KindInputs :
          add_proxy_call(t, a[1], a[2], ty)
    \/ \E t \in Threads : add_proxy_check(t)
    \/ \E t \in Threads : add_proxy_acquire(t)
    \/ \E t \in Threads : add_proxy_scan(t)
    \/ \E t \in Threads : add_proxy_append(t)
    \/ \E t \in Threads, a \in Addrs \cup {<<"h2", 1>>} : remove_proxy_call(t, a[1], a[2])
    \/ \E t \in Threads : remove_proxy_acquire(t)
    \/ \E t \in Threads : remove_proxy_scan(t)
    \/ \E t \in Threads : remove_proxy_pop(t)
    \/ rotate_call

SpecLock == Init /\ [][NextLock]_vars

\* An entry six failed probes have deactivated.
Failed(h, p) ==
    [ProxyEntry(h, p, "http") EXCEPT !.is_active = FALSE,
                                     !.failure_count = FailureThreshold + 1]

\* The pools SpecRotate starts from: up to MaxPool entries, each fresh or
\* deactivated by six failed probes, and an index left by earlier rotations
\* of a pool of up to MaxPool active entries.
InitRotate ==
    /\ \E n \in 0..MaxPool : \E act \in [1..n -> BOOLEAN] :
         LET a == <<<<"h1", 1>>, <<"h1", 2>>, <<"h2", 1>>, <<"h2", 2>>, <<"h3", 1>>>>
         IN  proxies = [k \in 1..n |->
                          IF act[k]
                          THEN ProxyEntry(a[k][1], a[k][2], "http")
                          ELSE Failed(a[k][1], a[k][2])]
    /\ current_proxy_index \in 0..(MaxPool - 1)
    /\ last_rotation = 0
    /\ inbound = <<>>
    /\ listen_port = DefaultPort
    /\ stats = TrafficStats
    /\ Idle
    /\ Aside

NextRotate ==
    \/ cmd_rotate_call
    \/ cmd_rotate_get
    \/ Tick

SpecRotate == InitRotate /\ [][NextRotate]_vars

AdminRemove == \E a \in AdminAddrs : remove_proxy(a[1], a[2])

NextAdmin ==
    \/ \E a \in AdminAddrs, ty \in KindInputs : add_proxy(a[1], a[2], ty)
    \/ AdminRemove
    \/ rotate_call
    \/ validate_all_proxies
    \/ validate_proxy_200
    \/ validate_proxy_error
    \/ validate_proxy_other
    \/ validate_proxy_check
    \/ request_begin
    \/ relay_success
    \/ relay_http_error
    \/ relay_failure
    \/ relay_failure_unsent
    \/ relay_disconnect
    \/ request_end
    \/ save_to_file
    \/ stop

\* An empty pool behind a server that has relayed all but two of its
\* MaxRequests requests, each of them directly and with success.
InitAdmin ==
    /\ proxies = <<>>
    /\ current_proxy_index = 0
    /\ last_rotation = 0
    /\ inbound = <<>>
    /\ listen_port = DefaultPort
    /\ stats = [total_requests |-> MaxRequests - 2,
                successful_requests |-> MaxRequests - 2,
                failed_requests |-> 0]
    /\ Idle
    /\ Aside

SpecAdmin == InitAdmin /\ [][NextAdmin]_vars

\* Request handling from the first request on, over one address: the pool
\* is empty at first, or holds an entry six failed probes have deactivated.
InitRelay ==
    /\ proxies \in {<<>>, <<Failed("h1", 1)>>}
    /\ current_proxy_index = 0
    /\ last_rotation = 0
    /\ inbound = <<>>
    /\ listen_port = DefaultPort
    /\ stats = TrafficStats
    /\ Idle
    /\ Aside

NextRelay ==
    \/ \E a \in AdminAddrs, ty \in KindInputs : add_proxy(a[1], a[2], ty)
    \/ AdminRemove
    \/ request_begin
    \/ relay_success
    \/ relay_http_error
    \/ relay_failure
    \/ relay_failure_unsent
    \/ relay_disconnect
    \/ request_end

SpecRelay == InitRelay /\ [][NextRelay]_vars

\* Files: a pool built by add_proxy, saved, edited by hand and loaded.
NextFile ==
    \/ \E a \in {<<"h1", 1>>, <<"::1", 1>>, <<"#h", 1>>}, ty \in {"http", "HTTP"} :
          add_proxy(a[1], a[2], ty)
    \/ save_to_file
    \* written by hand: a skipped line before a line that is read, or between
    \* two lines that are read (the same one twice: a duplicate)
    \/ \E b \in SkippedLines, g, h \in ReadLines :
          edit_file(<<b, g>>) \/ edit_file(<<g, b, h>>)
    \/ load_from_file

SpecFile == Init /\ [][NextFile]_vars

\* Requests with up to MaxHeaders header lines, relayed without a pool.
InitHeaders ==
    /\ proxies = <<>>
    /\ current_proxy_index = 0
    /\ last_rotation = 0
    /\ inbound \in UNION {[1..k ->
            {"Accept", "accept", "Connection", "host", "x-forwarded-for"} \X {"a", "b"}]
                         : k \in 0..MaxHeaders}
    /\ listen_port = DefaultPort
    /\ stats = TrafficStats
    /\ Idle
    /\ Aside

NextHeaders ==
    \/ request_begin
    \/ relay_success
    \/ request_end

SpecHeaders == InitHeaders /\ [][NextHeaders]_vars

\* The lifecycle: start and stop called on an instance that listens on a
\* fixed port or on any free port, with a pool of up to two entries.
InitLife ==
    /\ proxies = <<>>
    /\ current_proxy_index = 0
    /\ last_rotation = 0
    /\ inbound = <<>>
    /\ listen_port \in {0, DefaultPort}
    /\ stats = TrafficStats
    /\ Idle
    /\ Aside

NextLife ==
    \/ start
    \/ start_bind_error
    \/ cmd_start
    \/ proxy_stop
    \/ start_rotation
    \/ stop
    \/ \E a \in Addrs, ty \in KindInputs : add_proxy(a[1], a[2], ty)
    \/ rotation_loop
    \/ \E k \in {"rotation", "validation"} : loop_exit(k)
    \/ Tick

SpecLife == InitLife /\ [][NextLife]_vars

\* The loops of a started instance: the state after ReverseProxy.start on a
\* pool of two entries with FailureThreshold failures each, one request
\* short of MaxRequests, until ReverseProxy.stop or ProxyPool.stop and
\* after, no probe answered with 200.
InitLoops ==
    /\ proxies = <<[ProxyEntry("h1", 1, "http") EXCEPT !.failure_count = FailureThreshold],
                   [ProxyEntry("h1", 2, "http") EXCEPT !.failure_count = FailureThreshold]>>
    /\ current_proxy_index = 0
    /\ last_rotation = 0
    /\ inbound = <<>>
    /\ listen_port = DefaultPort
    /\ stats = [total_requests |-> MaxRequests - 1,
                successful_requests |-> MaxRequests - 1,
                failed_requests |-> 0]
    /\ now = 0
    /\ proxies_snapshot = <<>>
    /\ vpc = "idle"
    /\ vret = <<>>
    /\ hproxy = None
    /\ hpc = "idle"
    /\ answer = NoResponse
    /\ response = NoResponse
    /\ outbound = <<>>
    /\ running = TRUE
    /\ proxy_running = TRUE
    /\ servers = 1
    /\ loops = [rotation |-> 1, validation |-> 1, serve |-> 1]
    /\ lpc = [rotation |-> "while", validation |-> "while", serve |-> "while"]
    /\ file = [exists |-> FALSE, lines |-> <<>>]
    /\ lock = NoThread
    /\ tpc = [t \in Threads |-> "idle"]
    /\ targ = [t \in Threads |-> NoArgs]
    /\ ret = <<>>
    /\ cpc = "prompt"
    /\ current = None
    /\ visited = <<>>
    /\ current_proxy = None
    /\ count = 0
    /\ fresh = <<>>
    /\ spc = "idle"
    /\ status = [current_proxy |-> None, is_active |-> FALSE, proxy_count |-> 0,
                 active_proxy_count |-> 0, proxy_stats |-> 0]
    /\ Aside

NextLoops ==
    \/ \E k \in DOMAIN lpc : loop_while(k)
    \/ \E k \in DOMAIN lpc : loop_wake(k)
    \/ \E k \in {"rotation", "validation"} : loop_if(k)
    \/ rotation_loop_call
    \/ validation_loop_call
    \/ validate_proxy_error
    \/ validate_proxy_other
    \/ validate_proxy_check
    \/ validation_loop_return
    \/ serve_accept
    \/ serve_error
    \/ serve_except
    \/ stop
    \/ proxy_stop

\* Each background thread is scheduled again and again: a sleep ends, a
\* probe gets its outcome, a thread that can step does.  The accept thread
\* steps on its own from its `while` and its `except`; handle_request
\* returns or raises when a client connects, which no client has to do.
FairLoops ==
    /\ InitLoops
    /\ [][NextLoops]_vars
    /\ WF_vars(\/ loop_while("rotation")
               \/ loop_wake("rotation")
               \/ loop_if("rotation")
               \/ rotation_loop_call)
    /\ WF_vars(\/ loop_while("validation")
               \/ loop_wake("validation")
               \/ loop_if("validation")
               \/ validation_loop_call
               \/ validate_proxy_error
               \/ validate_proxy_other
               \/ validate_proxy_check
               \/ validation_loop_return)
    /\ WF_vars(loop_while("serve") \/ serve_except)

\* The same with requests being handled, every relay failing.
NextServe ==
    \/ NextLoops
    \/ request_begin
    \/ relay_failure
    \/ relay_failure_unsent
    \/ request_end

SpecServe == InitLoops /\ [][NextServe]_vars

\* get_status called again and again while one thread adds and removes an
\* entry and the rotation thread rotates: the callers of ProxyPool._lock.
NextCalls ==
    \/ \E a \in AdminAddrs, ty \in KindInputs : add_proxy_call("t1", a[1], a[2], ty)
    \/ add_proxy_check("t1")
    \/ add_proxy_acquire("t1")
    \/ add_proxy_scan("t1")
    \/ add_proxy_append("t1")
    \/ \E a \in AdminAddrs : remove_proxy_call("t1", a[1], a[2])
    \/ remove_proxy_acquire("t1")
    \/ remove_proxy_scan("t1")
    \/ remove_proxy_pop("t1")
    \/ rotate_call
    \/ get_status_acquire
    \/ get_status_current
    \/ get_status_dict
    \/ get_status_count
    \/ get_status_active
    \/ get_status_stats

\* A thread inside a call goes on, and a thread that waits for
\* ProxyPool._lock takes it at one of the times it is free.
FairCalls ==
    /\ Init
    /\ [][NextCalls]_vars
    /\ WF_vars(\/ add_proxy_check("t1")
               \/ add_proxy_scan("t1")
               \/ add_proxy_append("t1")
               \/ remove_proxy_scan("t1")
               \/ remove_proxy_pop("t1"))
    /\ SF_vars(add_proxy_acquire("t1") \/ remove_proxy_acquire("t1"))
    /\ WF_vars(\/ get_status_current
               \/ get_status_dict
               \/ get_status_count
               \/ get_status_active
               \/ get_status_stats)
    /\ SF_vars(spc = "stats_wait" /\ get_status_acquire)

\* The same while the validation thread probes, every probe failing.
NextStatus ==
    \/ NextCalls
    \/ validate_all_proxies
    \/ validate_proxy_error
    \/ validate_proxy_check

SpecStatus == Init /\ [][NextStatus]_vars

\* Requests relayed without a pool while the clear command is given.
NextClear ==
    \/ request_begin
    \/ relay_success
    \/ relay_failure
    \/ request_end
    \/ clear_assign
    \/ clear_publish

SpecClear == Init /\ [][NextClear]_vars

\* The selection alone: any healthy list of distinct targets and any
\* in-flight counts, then selections, dispatches and completions.
InitSelect ==
    /\ proxies = <<>>
    /\ current_proxy_index = 0
    /\ last_rotation = 0
    /\ inbound = <<>>
    /\ listen_port = DefaultPort
    /\ stats = TrafficStats
    /\ Idle
    /\ healthy \in {h \in UNION {[1..n -> Targets] : n \in 0..Cardinality(Targets)} :
                      \A i, j \in DOMAIN h : h[i] = h[j] => i = j}
    /\ connections \in [Targets -> 0..MaxInFlight]
    /\ chosen = <<>>
    /\ sweep = <<>>
    /\ probed = <<>>
    /\ response_times = <<>>
    /\ samples = <<>>
    /\ wpc = [w \in Workers |-> "idle"]
    /\ wproxy = [w \in Workers |-> None]
    /\ wok = [w \in Workers |-> FALSE]
    /\ wval = [w \in Workers |-> 0]
    /\ started = 0
    /\ invocations = 0

NextSelect ==
    \/ select
    \/ dispatch
    \/ \E t \in Targets : complete(t)

SpecSelect == InitSelect /\ [][NextSelect]_vars

\* One entry with FailureThreshold failures, and the outcomes recorded on it
\* one call after the other, the n-th response time recorded being n, so
\* that every sample differs.
InitRace ==
    /\ proxies = <<[ProxyEntry("h1", 1, "http") EXCEPT !.failure_count = FailureThreshold]>>
    /\ current_proxy_index = 0
    /\ last_rotation = 0
    /\ inbound = <<>>
    /\ listen_port = DefaultPort
    /\ stats = TrafficStats
    /\ Idle
    /\ Aside

NextWindow ==
    \/ \E rt \in {Len(samples) + 1} : record_success_call(rt)
    \/ record_failure_call

SpecWindow == InitRace /\ [][NextWindow]_vars

\* The same entry, with two handler threads and the validation thread at
\* work on it.
NextRace ==
    \/ \E w \in Workers : worker_begin(w)
    \/ \E w \in Workers : worker_select(w)
    \/ \E w \in Workers : worker_open(w)
    \/ validator_probe
    \/ validator_outcome
    \/ \E w \in Workers : count_load(w)
    \/ \E w \in Workers : count_store(w)
    \/ validator_return
    \/ \E w \in Workers : stats_load(w)
    \/ \E w \in Workers : stats_store(w)

SpecRace == InitRace /\ [][NextRace]_vars

(* ------------------------------ properties ---------------------------- *)

\* C1: whatever the interleaving of the add_proxy and remove_proxy calls of
\* the two threads, no two entries of the pool have the same (host, port).
NoDuplicateTargets ==
    \A i, j \in 1..Len(proxies) :
        (proxies[i].host = proxies[j].host /\ proxies[i].port = proxies[j].port)
            => i = j

\* C1, reached: a thread is about to append an address while the other waits
\* for the lock to add the same address, and the pool holds another entry.
RacingAdds ==
    \E t, u \in Threads :
        /\ t # u
        /\ tpc[t] = "add_append"
        /\ tpc[u] = "add_wait"
        /\ targ[t].host = targ[u].host
        /\ targ[t].port = targ[u].port
        /\ proxies # <<>>

\* C2, with the kind compared without regard to case: add_proxy returns
\* False and leaves the list, every entry and the index as they were when the
\* (host, port) is in the pool or the lower-cased kind is not one of http,
\* https, socks4, socks5; otherwise it returns True and appends exactly one
\* entry, with the given address and the lower-cased kind, active, with
\* success_count = failure_count = 0.
AddProxyContract ==
    [][\A a \in Addrs, ty \in KindInputs :
          add_proxy(a[1], a[2], ty) =>
            LET dup == \E i \in 1..Len(proxies) :
                           proxies[i].host = a[1] /\ proxies[i].port = a[2]
                known == Lower(ty) \in {"http", "https", "socks4", "socks5"}
            IN  IF dup \/ ~known
                THEN /\ ret' = <<FALSE>>
                     /\ proxies' = proxies
                     /\ current_proxy_index' = current_proxy_index
                ELSE /\ ret' = <<TRUE>>
                     /\ Len(proxies') = Len(proxies) + 1
                     /\ SubSeq(proxies', 1, Len(proxies)) = proxies
                     /\ proxies'[Len(proxies')] =
                          [host |-> a[1], port |-> a[2], proxy_type |-> Lower(ty),
                           is_active |-> TRUE, success_count |-> 0,
                           failure_count |-> 0]
                     /\ current_proxy_index' = current_proxy_index]_vars

\* C2 as the claim words it, the kind compared as it is written: add_proxy
\* returns False and changes nothing when the (host, port) is in the pool or
\* the kind is not one of the strings http, https, socks4, socks5; otherwise
\* it returns True and appends one fresh active entry.
AddProxyContractExactKind ==
    [][\A a \in Addrs, ty \in KindInputs :
          add_proxy(a[1], a[2], ty) =>
            LET dup == \E i \in 1..Len(proxies) :
                           proxies[i].host = a[1] /\ proxies[i].port = a[2]
                known == ty \in {"http", "https", "socks4", "socks5"}
            IN  IF dup \/ ~known
                THEN /\ ret' = <<FALSE>>
                     /\ proxies' = proxies
                     /\ current_proxy_index' = current_proxy_index
                ELSE /\ ret' = <<TRUE>>
                     /\ Len(proxies') = Len(proxies) + 1
                     /\ SubSeq(proxies', 1, Len(proxies)) = proxies
                     /\ proxies'[Len(proxies')].is_active
                     /\ proxies'[Len(proxies')].success_count = 0
                     /\ proxies'[Len(proxies')].failure_count = 0
                     /\ current_proxy_index' = current_proxy_index]_vars

\* C2, reached: add_proxy has returned False on a pool whose two entries
\* carry recorded outcomes, one of them deactivated, with the index at 1.
\* (Both addresses are in the pool, so the call that returned False is not a
\* remove_proxy.)
RejectedAddOnUsedPool ==
    /\ ret = <<FALSE>>
    /\ Len(proxies) = 2
    /\ current_proxy_index = 1
    /\ \E i \in 1..2 : ~proxies[i].is_active /\ proxies[i].failure_count > 0
    /\ \E i \in 1..2 : proxies[i].success_count > 0

\* C3: remove_proxy returns False and leaves the pool as it was when no entry
\* has the (host, port); when one has, it returns True and the list after it
\* is the list before it without that entry, the others in their order.
RemoveProxyContract ==
    [][\A t \in Threads :
          LET present == \E i \in 1..Len(proxies) :
                             proxies[i].host = targ[t].host /\ proxies[i].port = targ[t].port
              Other(e) == ~(e.host = targ[t].host /\ e.port = targ[t].port)
          IN  /\ (tpc[t] = "remove_scan" /\ tpc'[t] # "remove_scan") =>
                    IF present
                    THEN /\ tpc'[t] = "remove_pop"
                         /\ proxies' = proxies
                    ELSE /\ tpc'[t] = "idle"
                         /\ ret' = <<FALSE>>
                         /\ proxies' = proxies
                         /\ current_proxy_index' = current_proxy_index
                         /\ last_rotation' = last_rotation
              /\ (tpc[t] = "remove_pop" /\ tpc'[t] # "remove_pop") =>
                    /\ present
                    /\ tpc'[t] = "idle"
                    /\ ret' = <<TRUE>>
                    /\ proxies' = SelectSeq(proxies, Other)
                    /\ Len(proxies') = Len(proxies) - 1]_vars

\* C3, reached: a thread is at the pop of the middle entry of a pool of
\* three, while the other thread waits for the lock.
RemovingMiddleEntry ==
    \E t, u \in Threads :
        /\ t # u
        /\ tpc[t] = "remove_pop"
        /\ targ[t].i = 2
        /\ Len(proxies) = 3
        /\ tpc[u] \in {"add_wait", "remove_wait"}

\* C4: get_current_proxy, called (here by get_status) after any sequence of
\* the other operations, returns None exactly when no entry of the pool is
\* active; otherwise it returns an entry that is in the pool and active, the
\* one with (index mod number of active entries) active entries before it,
\* and leaves the index below the number of active entries.
CurrentProxyContract ==
    [][get_status =>
          LET act == {i \in 1..Len(proxies) : proxies[i].is_active}
              n == Cardinality(act)
          IN  IF n = 0
              THEN current_proxy' = None
              ELSE /\ current_proxy' # None
                   /\ \E i \in act :
                        /\ current_proxy' = <<proxies[i].host, proxies[i].port>>
                        /\ Cardinality({j \in act : j < i}) = current_proxy_index % n
                   /\ current_proxy_index' < n
                   /\ proxies' = proxies]_vars

\* C4, reached: get_status holds the second entry of the pool, selected
\* past a deactivated first entry.
SelectedPastInactive ==
    /\ Len(proxies) = 2
    /\ ~proxies[1].is_active
    /\ proxies[2].is_active
    /\ current_proxy = <<proxies[2].host, proxies[2].port>>

\* C5: on a pool that stays fixed, with N >= 1 active entries, the first N
\* rotate commands make get_current_proxy return N different entries, the N
\* active ones, and the command after them returns the first of them again.
RotationVisitsEachOnce ==
    LET act == {i \in 1..Len(proxies) : proxies[i].is_active}
        N == Cardinality(act)
    IN  N >= 1 =>
          /\ Len(visited) >= N =>
               /\ {visited[k] : k \in 1..N} =
                    {<<proxies[i].host, proxies[i].port>> : i \in act}
               /\ \A k, m \in 1..N : visited[k] = visited[m] => k = m
          /\ Len(visited) = N + 1 => visited[N + 1] = visited[1]

\* C5, reached: a pool of three with the middle entry deactivated, after
\* the two rotations of a full cycle and the one that repeats the first.
FullCyclePastInactive ==
    /\ Len(proxies) = 3
    /\ proxies[1].is_active
    /\ ~proxies[2].is_active
    /\ proxies[3].is_active
    /\ Len(visited) = 3

\* C6: rotate on a pool with at most one active entry leaves the index,
\* last_rotation and the list as they were, whatever the index was.
RotateNoOpUpToOneActive ==
    [][(cpc = "prompt" /\ cpc' = "rotated"
          /\ Cardinality({i \in 1..Len(proxies) : proxies[i].is_active}) <= 1) =>
          /\ current_proxy_index' = current_proxy_index
          /\ last_rotation' = last_rotation
          /\ proxies' = proxies]_vars

\* C6, reached: rotate has returned on a pool with one active entry, with
\* the index still at 2 and last_rotation still behind the clock.
RotatedWithStaleIndex ==
    /\ cpc = "rotated"
    /\ Cardinality({i \in 1..Len(proxies) : proxies[i].is_active}) = 1
    /\ Len(proxies) >= 2
    /\ current_proxy_index = 2
    /\ last_rotation < now

\* C7 as the claim words it: once no validation and no request is under
\* way, an entry with six recorded failures and no success is inactive.
SixFailuresDeactivate ==
    (vpc = "idle" /\ hpc = "idle") =>
        \A i \in 1..Len(proxies) :
            (proxies[i].success_count = 0 /\ proxies[i].failure_count = 6)
                => ~proxies[i].is_active

\* C8 as the claim words it: once no validation and no request is under
\* way, an entry with failure_count > 5 and
\* success_count / (success_count + failure_count) < 0.3 is inactive.
DeactivatedOverThreshold ==
    (vpc = "idle" /\ hpc = "idle") =>
        \A i \in 1..Len(proxies) :
            LET s == proxies[i].success_count
                f == proxies[i].failure_count
            IN  (f > 5 /\ 10 * s < 3 * (s + f)) => ~proxies[i].is_active

\* C9: the pool loses an entry only in a step of remove_proxy; rotate,
\* get_current_proxy, validate_proxy, validate_all_proxies, the recording of
\* outcomes, the relay of a request, save_to_file and stop never shorten
\* the list or drop an address from it.
OnlyRemoveProxyRemoves ==
    [][(\/ Len(proxies') < Len(proxies)
        \/ \E i \in 1..Len(proxies) :
             \A j \in 1..Len(proxies') :
                 <<proxies'[j].host, proxies'[j].port>> #
                     <<proxies[i].host, proxies[i].port>>)
          => AdminRemove]_vars

\* C9, reached: an entry over the threshold has been deactivated by a
\* finished validation and is still in the pool, the file written, the
\* loops stopped after having been started or never started.
DeactivatedStillInPool ==
    /\ vpc = "idle"
    /\ hpc = "idle"
    /\ file.exists
    /\ ~running
    /\ \E i \in 1..Len(proxies) :
         ~proxies[i].is_active /\ proxies[i].failure_count > 5

\* C10: for every entry of the pool, get_success_rate is a fraction within
\* [0, 1], it is 0 when success_count + failure_count = 0, and otherwise it
\* equals success_count / (success_count + failure_count).
SuccessRateInRange ==
    \A i \in 1..Len(proxies) :
        LET r == get_success_rate(proxies[i])
            total == proxies[i].success_count + proxies[i].failure_count
        IN  /\ r[2] > 0
            /\ 0 <= r[1]
            /\ r[1] <= r[2]
            /\ total = 0 => r[1] = 0
            /\ total # 0 => r[1] * total = proxies[i].success_count * r[2]

\* C10, reached: the pool holds an entry with no recorded outcome and an
\* entry with both a success and failures recorded.
FreshAndMixedEntries ==
    /\ \E i \in 1..Len(proxies) :
         proxies[i].success_count + proxies[i].failure_count = 0
    /\ \E i \in 1..Len(proxies) :
         proxies[i].success_count > 0 /\ proxies[i].failure_count > 1

\* C11 as the claim words it: for the pool built so far by add_proxy calls,
\* save_to_file followed by load_from_file into a fresh empty pool gives a
\* pool with the same set of (host, port, kind) tuples, and load_from_file
\* returns the number of entries of the original pool.
SaveLoadRoundTrip ==
    LET Tuples(pool) == {<<pool[i].host, pool[i].port, pool[i].proxy_type>> :
                            i \in 1..Len(pool)}
        back == Loaded(<<>>, FileLines(proxies))
    IN  /\ Tuples(back.pool) = Tuples(proxies)
        /\ back.count = Len(proxies)

\* C12: load_from_file returns whatever the lines of the file are.  Blank
\* lines, comments, lines without a port, with a port that is no number,
\* with an unknown kind or with an address already in the pool add nothing;
\* every line `host:port[:kind]` with a known kind has its address in the
\* pool afterwards, wherever in the file it stands; the entries the pool had
\* stay as they were and in front; every new entry is fresh and comes from
\* such a line; the count returned is the growth of the pool; a missing file
\* gives 0 and leaves the pool as it was.
LoadFromFileContract ==
    [][load_from_file =>
          LET Digits == {ToString(p) : p \in 0..9}
              Valid(l) == /\ Len(Strip(l)) \in {3, 5}
                          /\ Strip(l)[1] \notin {":", "#", " "}
                          /\ Strip(l)[2] = ":"
                          /\ Strip(l)[3] \in Digits
                          /\ Len(Strip(l)) = 5 =>
                                /\ Strip(l)[4] = ":"
                                /\ Lower(Strip(l)[5]) \in
                                      {"http", "https", "socks4", "socks5"}
              HostOf(l) == Strip(l)[1]
              PortOf(l) == CHOOSE p \in 0..9 : ToString(p) = Strip(l)[3]
              KindOf(l) == IF Len(Strip(l)) = 5 THEN Lower(Strip(l)[5]) ELSE "http"
              n == Len(proxies)
          IN  IF ~file.exists
              THEN count' = 0 /\ proxies' = proxies
              ELSE /\ count' = Len(proxies') - n
                   /\ count' >= 0
                   /\ SubSeq(proxies', 1, n) = proxies
                   /\ \A k \in 1..Len(file.lines) :
                        Valid(file.lines[k]) =>
                            \E j \in 1..Len(proxies') :
                                /\ proxies'[j].host = HostOf(file.lines[k])
                                /\ proxies'[j].port = PortOf(file.lines[k])
                   /\ \A j \in (n + 1)..Len(proxies') :
                        /\ \E k \in 1..Len(file.lines) :
                             /\ Valid(file.lines[k])
                             /\ proxies'[j] =
                                  [host |-> HostOf(file.lines[k]),
                                   port |-> PortOf(file.lines[k]),
                                   proxy_type |-> KindOf(file.lines[k]),
                                   is_active |-> TRUE, success_count |-> 0,
                                   failure_count |-> 0]
                        /\ \A i \in 1..Len(proxies') :
                             (proxies'[i].host = proxies'[j].host
                                /\ proxies'[i].port = proxies'[j].port) => i = j]_vars

\* C12, reached: the file holds a line with a port that is no number and,
\* after it, the padded line of h2; load_from_file has returned 1 and h2 is
\* the one entry of the pool, with its kind in lower case.
LoadedPastBadLine ==
    /\ file.exists
    /\ file.lines = << <<"h1", ":", "x">>,
                      <<" ", "h2", ":", "2", ":", "HTTP", " ">> >>
    /\ count = 1
    /\ Len(proxies) = 1
    /\ proxies[1].host = "h2"
    /\ proxies[1].proxy_type = "http"

\* C13 as the claim words it: every probe of a target of the pool ends in
\* exactly one accounting update, success_count + 1 with the target active
\* after an HTTP 200, failure_count + 1 after anything else; no probe leaves
\* both counters as they were.
ProbeRecordsOneOutcome ==
    [][(vpc = "probe"
          /\ (vpc' = "check" \/ Len(proxies_snapshot') < Len(proxies_snapshot))) =>
          \A i \in 1..Len(proxies) :
              <<proxies[i].host, proxies[i].port>> = Head(proxies_snapshot) =>
                  \/ /\ proxies'[i].success_count = proxies[i].success_count + 1
                     /\ proxies'[i].failure_count = proxies[i].failure_count
                     /\ proxies'[i].is_active
                  \/ /\ proxies'[i].failure_count = proxies[i].failure_count + 1
                     /\ proxies'[i].success_count = proxies[i].success_count]_vars

\* C14: validate_proxy returns a boolean on every path, True after an HTTP
\* 200 and False after the threshold test that follows every other outcome,
\* and validate_all_proxies goes on to the next target of its snapshot after
\* each return: the sweep is over only when the snapshot is used up.
ValidationNeverAborts ==
    [][/\ vpc = "idle" => proxies_snapshot = <<>>
       /\ (vpc # "idle"
            /\ (vpc' # vpc \/ Len(proxies_snapshot') # Len(proxies_snapshot))) =>
            \/ /\ vpc = "probe"
               /\ vpc' = "check"
               /\ proxies_snapshot' = proxies_snapshot
               /\ vret' = vret
            \/ /\ proxies_snapshot' = Tail(proxies_snapshot)
               /\ vret' = <<vpc = "probe">>
               /\ vpc' \in {"idle", "probe"}
               /\ vpc' = "idle" <=> Tail(proxies_snapshot) = <<>>]_vars

\* C14, reached: validate_proxy has returned False for the first entry of a
\* pool of two, its failure recorded, and the sweep is at the probe of the
\* second entry.
SweepPastFailedProbe ==
    /\ vpc = "probe"
    /\ vret = <<FALSE>>
    /\ Len(proxies) = 2
    /\ proxies_snapshot = <<Addr(proxies[2])>>
    /\ proxies[1].failure_count = 1
    /\ proxies[2].failure_count = 0
    /\ proxies[2].success_count = 0

\* C15: when the backend answers with an HTTP error status (not 2xx) and the
\* relay writes its response, the client is sent that status and that body,
\* the exchange is counted as successful (successful_requests + 1,
\* failed_requests unchanged), and the pool target used, if any, has one more
\* success and no more failures.
HttpErrorRelayed ==
    [][(hpc = "sent" /\ hpc' = "except_http") =>
          /\ answer'.status \notin 200..299
          /\ answer'.status # 0
          /\ response'.status = answer'.status
          /\ response'.body = answer'.body
          /\ stats'.successful_requests = stats.successful_requests + 1
          /\ stats'.failed_requests = stats.failed_requests
          /\ Len(proxies') = Len(proxies)
          /\ \A i \in 1..Len(proxies) :
                IF <<proxies[i].host, proxies[i].port>> = hproxy
                THEN /\ proxies'[i].success_count = proxies[i].success_count + 1
                     /\ proxies'[i].failure_count = proxies[i].failure_count
                ELSE proxies'[i] = proxies[i]]_vars

\* C15, reached: a 404 with a body has been relayed through a pool target
\* that now has one success, as the second exchange, the first one failed.
RelayedNotFound ==
    /\ hpc = "except_http"
    /\ response = [status |-> 404, body |-> "page"]
    /\ \E i \in 1..Len(proxies) :
         /\ <<proxies[i].host, proxies[i].port>> = hproxy
         /\ proxies[i].success_count = 1
    /\ stats = [total_requests |-> 2, successful_requests |-> 1,
                failed_requests |-> 1]

\* C16 as the claim words it: a relay that ends in the URLError or the
\* timeout clause has answered the client with 502 or 504, or could not send
\* that answer; it is counted as failed, and the pool target used, if any,
\* has one more failure, also when the answer could not be sent.
TransportFailureRecorded ==
    [][(hpc = "sent" /\ hpc' \in {"except_url", "except_timeout"}) =>
          /\ response'.status \in {502, 504} \/ response' = NoResponse
          /\ stats'.failed_requests = stats.failed_requests + 1
          /\ stats'.successful_requests = stats.successful_requests
          /\ \A i \in 1..Len(proxies) :
                <<proxies[i].host, proxies[i].port>> = hproxy =>
                    proxies'[i].failure_count = proxies[i].failure_count + 1]_vars

\* C17: proxy_request calls record_request once, on whichever branch it
\* ends: the step that ends the exchange adds 1 to total_requests and 1 to
\* one of the two other counters, and no other step of the handler or of
\* the pool changes the counters.
OneRecordPerRequest ==
    [][IF hpc = "sent" /\ hpc' # "sent"
       THEN /\ stats'.total_requests = stats.total_requests + 1
            /\ stats'.successful_requests + stats'.failed_requests =
                 stats.successful_requests + stats.failed_requests + 1
            /\ stats'.successful_requests >= stats.successful_requests
            /\ stats'.failed_requests >= stats.failed_requests
       ELSE stats' = stats]_vars

\* C17, reached: the second exchange ended in the URLError clause with
\* nothing sent to the client (send_error raised), after a first exchange
\* that succeeded; both are counted.
CountedUnsentFailure ==
    /\ hpc = "except_url"
    /\ response = NoResponse
    /\ hproxy # None
    /\ stats = [total_requests |-> 2, successful_requests |-> 1,
                failed_requests |-> 1]

\* C18 as the claim words it: a relay that found no active target in the
\* pool answers the client with a gateway-unavailable status and does not
\* add to successful_requests.
NoTargetUnavailable ==
    [][(hpc = "sent" /\ hpc' # "sent" /\ hproxy = None) =>
          /\ response'.status \in {502, 503, 504}
          /\ stats'.successful_requests = stats.successful_requests]_vars

\* C19 as the claim words it: the headers of the outbound request hold no
\* client header with a hop-by-hop name, hold every other header line of the
\* client (its name, whatever the case, with its value), and hold Host,
\* X-Forwarded-For, X-Real-IP and X-Forwarded-Proto with the values of the
\* relay and no other value.
OutboundHeadersContract ==
    hpc = "sent" =>
        LET Injected == {<<"host", TargetAddress>>,
                         <<"x-forwarded-for", ClientAddress>>,
                         <<"x-real-ip", ClientAddress>>,
                         <<"x-forwarded-proto", Scheme>>}
            InjectedNames == {n[1] : n \in Injected}
            Out == {<<Lower(outbound[k][1]), outbound[k][2]>> : k \in 1..Len(outbound)}
        IN  /\ \A o \in Out : o[1] \in hop_by_hop => o \in Injected
            /\ \A n \in Injected : n \in Out /\ \A o \in Out : o[1] = n[1] => o = n
            /\ \A i \in 1..Len(inbound) :
                  Lower(inbound[i][1]) \notin hop_by_hop \cup InjectedNames =>
                      <<Lower(inbound[i][1]), inbound[i][2]>> \in Out

\* C20 as the claim words it: ReverseProxy.start called on an instance that
\* is running binds no second server, starts no rotation, validation or
\* accept thread, and leaves the running flags as they were.
StartOnRunningIsNoOp ==
    [][(proxy_running /\ start) =>
          /\ servers' = servers
          /\ loops' = loops
          /\ proxy_running' = proxy_running
          /\ running' = running]_vars

\* C21 as the claim words it: ReverseProxy.stop returns with the running
\* flags false and no listening socket open, on a running instance, on a
\* stopped one and on one that was never started.
StopClosesListener ==
    [][proxy_stop =>
          /\ ~proxy_running'
          /\ ~running'
          /\ servers' = 0
          /\ cpc' = "prompt"]_vars

\* C22: once ProxyPool.stop has cleared the flag, a rotation or validation
\* thread that is asleep, or past its sleep, goes from the sleep to the
\* `if`, from the `if` back to the `while` and from the `while` out of the
\* loop, never into rotate() or validate_all_proxies(); a thread that has
\* left its loop stays out; and both threads do leave their loops.
StoppedLoopsExit ==
    /\ [][\A k \in {"rotation", "validation"} :
             /\ (~running /\ lpc[k] = "sleep") => lpc'[k] \in {"sleep", "if"}
             /\ (~running /\ lpc[k] = "if") => lpc'[k] \in {"if", "while"}
             /\ (~running /\ lpc[k] = "while") => lpc'[k] \in {"while", "done"}
             /\ lpc[k] = "done" => lpc'[k] = "done"]_vars
    /\ (~running ~> (lpc["rotation"] = "done" /\ lpc["validation"] = "done"))

BothLoopsExited ==
    /\ ~running
    /\ proxy_running
    /\ lpc["rotation"] = "done"
    /\ lpc["validation"] = "done"
    /\ current_proxy_index = 1

LeastConnectionsContract ==
    [][select =>
         IF healthy = <<>> THEN chosen' = <<>>
         ELSE \E i \in DOMAIN healthy :
                /\ chosen' = <<healthy[i]>>
                /\ \A j \in DOMAIN healthy :
                      connections[healthy[j]] >= connections[healthy[i]]
                /\ \A j \in 1..(i - 1) :
                      connections[healthy[j]] > connections[healthy[i]]]_vars

ChoseFirstOfEquals ==
    /\ healthy = <<"A", "B", "C">>
    /\ connections = [t \in Targets |-> IF t = "A" THEN 3 ELSE 1]
    /\ chosen = <<"B">>

\* C25: at every moment of a sweep, whatever was added, removed or
\* deactivated since it started, the entries probed so far followed by the
\* entries still to probe are the pool as it was when the sweep started,
\* position by position, an entry removed since then still in its place;
\* when the sweep is over every one of them has been probed, once.
SweepIsSnapshot ==
    /\ Len(probed) + Len(proxies_snapshot)
          = Len(sweep) + (IF vpc = "check" THEN 1 ELSE 0)
    /\ \A k \in DOMAIN probed :
          k <= Len(sweep) /\ probed[k] \in {sweep[k], Detached}
    /\ \A k \in DOMAIN proxies_snapshot :
          /\ Len(sweep) - Len(proxies_snapshot) + k \in DOMAIN sweep
          /\ proxies_snapshot[k]
                \in {sweep[Len(sweep) - Len(proxies_snapshot) + k], Detached}
    /\ vpc = "idle" => Len(probed) = Len(sweep)

SweptAcrossRemoval ==
    /\ vpc = "idle"
    /\ Len(sweep) = 2
    /\ probed = <<sweep[1], Detached>>
    /\ Len(proxies) = 2
    /\ Addr(proxies[2]) = sweep[2]

\* C28: after every record_success call the list of response times has at
\* most 100 elements, and they are the last ones recorded, in the order
\* they were recorded in.
WindowIsLatest ==
    /\ Len(response_times) <= WindowCap
    /\ Len(response_times) = IF Len(samples) > WindowCap THEN WindowCap
                                                         ELSE Len(samples)
    /\ \A k \in DOMAIN response_times :
          response_times[k] = samples[Len(samples) - Len(response_times) + k]

OldestEvicted ==
    /\ Len(samples) = WindowCap + 2
    /\ Len(response_times) = WindowCap
    /\ samples[1] = 1
    /\ samples[2] = 2
    /\ response_times[1] = 3
    /\ response_times[WindowCap] = WindowCap + 2

\* C26 as the claim words it: once the handler threads have all returned
\* from record_request, total_requests is the number of record_request
\* calls made, and is the sum of successful_requests and failed_requests.
RecordRequestLosesNothing ==
    (\A w \in Handlers : wpc[w] = "idle") =>
        /\ stats.total_requests = invocations
        /\ stats.total_requests = stats.successful_requests + stats.failed_requests

\* C27 as the claim words it: no step of the handler threads and of the
\* validation thread lowers the success_count or the failure_count of an
\* entry.
CountersNeverLowered ==
    [][\A i \in DOMAIN proxies :
          /\ proxies'[i].success_count >= proxies[i].success_count
          /\ proxies'[i].failure_count >= proxies[i].failure_count]_vars

\* C29 as the claim words it: a thread that writes the cursor, an entry's
\* counters or an entry's active flag holds the pool lock while it does.
PoolWritesUnderLock ==
    [][\A w \in Workers :
          (wpc'[w] # wpc[w] /\ poolVars' # poolVars) => lock = w]_vars

\* C30: a thread inside a network call (the outbound request and the
\* response to the client of a handler, the probe of the validator) does
\* not hold the pool lock, and whoever holds it is inside
\* get_current_proxy.
NoNetworkUnderLock ==
    /\ \A w \in Workers : wpc[w] \in {"open", "probe"} => lock # w
    /\ \A w \in Workers : lock = w => wpc[w] = "locked"

NetworkBesideLock ==
    /\ wpc["w1"] = "open"
    /\ wpc["v"] = "probe"
    /\ lock = "w2"

\* C32: when the write of the backend's answer to the client fails, the
\* relay records nothing on the pool target it used, sends no synthetic
\* error response, and makes its one TrafficStats entry, a failed request.
ClientDisconnectLoggedOnly ==
    [][(hpc = "sent" /\ hpc' = "except_pipe") =>
          /\ answer'.status # 0
          /\ response'.status \notin GatewayCodes
          /\ proxies' = proxies
          /\ stats'.total_requests = stats.total_requests + 1
          /\ stats'.failed_requests = stats.failed_requests + 1
          /\ stats'.successful_requests = stats.successful_requests]_vars

\* C32, reached: the client went away from the first exchange relayed
\* through a pool target, which has no outcome recorded.
LostClientOfPoolTarget ==
    /\ hpc = "except_pipe"
    /\ answer.status = 200
    /\ Len(proxies) = 1
    /\ hproxy = Addr(proxies[1])
    /\ proxies[1].success_count = 0
    /\ proxies[1].failure_count = 0
    /\ stats = [total_requests |-> 1, successful_requests |-> 0,
                failed_requests |-> 1]

\* C33 as the claim words it: when get_current_proxy has returned T (the
\* index is as the call left it) and one step other than rotate() then
\* changes the pool (an entry added, removed, deactivated, reactivated or
\* with an outcome recorded) and leaves the entry of T as it was, active,
\* get_current_proxy still returns T.
CurrentChangesOnlyByRotation ==
    [][LET Returned(pool, index) ==
               LET active == SelectSeq(pool, LAMBDA e : e.is_active)
               IN  IF active = <<>> THEN None
                   ELSE Addr(active[(index % Len(active)) + 1])
       IN  (/\ current_proxy # None
            /\ current_proxy = Returned(proxies, current_proxy_index)
            /\ current_proxy_index < Len(active_proxies)
            /\ proxies' # proxies
            /\ current_proxy_index' = current_proxy_index
            /\ \E i \in 1..Len(proxies), j \in 1..Len(proxies') :
                  /\ Addr(proxies[i]) = current_proxy
                  /\ proxies[i].is_active
                  /\ proxies'[j] = proxies[i])
           => Returned(proxies', current_proxy_index') = current_proxy]_vars

DirectWithoutTarget ==
    [][/\ (hpc = "idle" /\ hpc' = "sent" /\ active_proxies = <<>>) =>
             /\ hproxy' = None
             /\ response' = NoResponse
             /\ proxies' = proxies
       /\ (hpc = "sent" /\ hpc' # "sent" /\ hproxy = None) =>
             /\ proxies' = proxies
             /\ stats'.total_requests = stats.total_requests + 1
             /\ stats'.successful_requests + stats'.failed_requests =
                  stats.successful_requests + stats.failed_requests + 1
             /\ (stats'.successful_requests = stats.successful_requests + 1)
                  <=> (answer'.status # 0 /\ response' = answer')]_vars

\* C38, reached: the pool holds one entry, deactivated, and the first
\* request was relayed directly and answered with 200.
RelayedPastInactivePool ==
    /\ hpc = "try_done"
    /\ hproxy = None
    /\ Len(proxies) = 1
    /\ ~proxies[1].is_active
    /\ proxies[1].success_count = 0
    /\ response.status = 200
    /\ stats = [total_requests |-> 1, successful_requests |-> 1,
                failed_requests |-> 0]

\* C39 as the claim words it: the step that ends an exchange relayed through
\* an entry of the pool adds one to exactly one of that entry's two
\* counters, success_count exactly when the exchange is counted in
\* successful_requests and failure_count exactly when it is counted in
\* failed_requests.
OneOutcomeAgreesWithStats ==
    [][\A i \in 1..Len(proxies) :
          (hpc = "sent" /\ hpc' # "sent" /\ hproxy = Addr(proxies[i])) =>
             LET succ == proxies'[i].success_count - proxies[i].success_count
                 fail == proxies'[i].failure_count - proxies[i].failure_count
             IN  /\ succ + fail = 1
                 /\ succ = stats'.successful_requests - stats.successful_requests
                 /\ fail = stats'.failed_requests - stats.failed_requests]_vars

\* C35 as the claim words it: whatever start and stop calls were made, at
\* most one rotation thread and at most one validation thread are alive.
OneLoopOfEachKind ==
    loops.rotation <= 1 /\ loops.validation <= 1

\* C36 as the claim words it: a ReverseProxy.stop that has reached
\* server.shutdown() returns to its caller, and once the flag is cleared
\* the accept thread leaves _serve, whether or not a client connects.
ShutdownTerminates ==
    /\ (cpc = "shutdown") ~> (cpc = "prompt")
    /\ (~proxy_running) ~> (lpc["serve"] = "done")

\* C31 as the claim words it: the reset is atomic, so every request that
\* completes is counted in the TrafficStats that get_status reports, which
\* is ReverseProxy.stats.
ResetIsAtomic ==
    [][LET reported == IF fresh = <<>> THEN stats ELSE fresh[1]
           reported_after == IF fresh' = <<>> THEN stats' ELSE fresh'[1]
       IN  (hpc = "sent" /\ hpc' # "sent") =>
              reported_after.total_requests = reported.total_requests + 1]_vars

\* C34 as the claim words it: in every status get_status has returned,
\* current_proxy is None exactly when active_proxy_count is 0,
\* active_proxy_count is at most proxy_count, proxy_count is the length of
\* proxy_stats, and a current_proxy that is not None is reported active.
StatusIsConsistent ==
    spc = "returned" =>
        /\ (status.current_proxy = None) <=> (status.active_proxy_count = 0)
        /\ status.active_proxy_count <= status.proxy_count
        /\ status.proxy_count = status.proxy_stats
        /\ status.current_proxy # None => status.is_active

\* C40: the pool lock cannot deadlock.  The lock is held by a thread exactly
\* while the thread is inside a `with self._lock:` block, so a thread that
\* has returned, early or not, holds nothing and a thread at an acquisition
\* is not the holder; a held lock is released; and a thread that waits for
\* the lock gets it.
PoolLockNeverDeadlocks ==
    /\ [](/\ lock = "t1" <=>
               tpc["t1"] \in {"add_scan", "add_append", "remove_scan", "remove_pop"}
          /\ lock = "status" <=> spc \in {"select", "stats"})
    /\ (lock # NoThread) ~> (lock = NoThread)
    /\ (tpc["t1"] \in {"add_wait", "remove_wait"}) ~> (lock = "t1")
    /\ (spc = "stats_wait") ~> (lock = "status")

\* add_proxy found its entry in the pool and returned False from inside
\* the block; now the thread waits to remove while get_stats holds the lock.
WaitsAfterEarlyReturn ==
    /\ ret = <<FALSE>>
    /\ proxies # <<>>
    /\ tpc["t1"] = "remove_wait"
    /\ lock = "status"
    /\ spc = "stats"

====
